---- MODULE Spec2Model ----
(***************************************************************************)
(* A model of erwindb's content composition (src/src/content.rs,           *)
(* src/src/html.rs) and of its navigator (src/src/app.rs) driven by the    *)
(* main loop (src/src/main.rs, src/src/event.rs, src/src/ui).              *)
(*                                                                         *)
(* The fields of App are the variables of the module. Every handler is an  *)
(* operator from an App record to an App record, written in the order of   *)
(* the assignments of the Rust code; an action applies one handler to the  *)
(* record of the current variables and stores the result.                  *)
(***************************************************************************)
EXTENDS Integers, Sequences, FiniteSets, TLC

(***************************************************************************)
(* Option<T>: None is the empty sequence, Some(x) the one-element one.     *)
(***************************************************************************)
None == << >>
Some(x) == << x >>
IsSome(o) == o # << >>
Unwrap(o) == o[1]

Min(a, b) == IF a <= b THEN a ELSE b
SatSub(a, b) == IF a >= b THEN a - b ELSE 0

(***************************************************************************)
(* Program constants.                                                      *)
(***************************************************************************)
\* ui/show.rs: DUAL_PANE_MIN_WIDTH (app.rs repeats the literal 160)
DUAL_PANE_MIN_WIDTH == 160
\* app.rs 'G': usize::MAX / 2, the "bottom" sentinel. Only its being larger
\* than every line count plus every page matters; the value is scaled to
\* the integer range of the model checker.
SCROLL_BOTTOM == 1000000
\* App::new: width: 80, height: 24
INIT_WIDTH == 80
INIT_HEIGHT == 24

(***************************************************************************)
(* Bounds of the model.                                                    *)
(***************************************************************************)
\* longest history stack explored (navigate from a document is disabled
\* once the stack holds MaxHist entries)
MaxHist == 1
\* a scroll-down of the distinguished pane is explored only while its
\* offset is at most MaxOffset (the pane is clamped only when it is drawn)
MaxOffset == 1

(***************************************************************************)
(* Storage (src/src/db.rs). An HTML fragment is a sequence of tokens:      *)
(*   word   ordinary word of display width w                               *)
(*   link   an <a> whose text is one word: "[text][n]", width w            *)
(*   lhead  first word of an <a> whose text has two words: "[te"           *)
(*   ltail  second word of that <a>: "xt][n]"                              *)
(*   code   a <pre> block of n source lines                                *)
(* and hrefs[n] is the destination of the n-th <a>. A URL is a record:     *)
(* so = TRUE for stackoverflow.com/questions/<q>, FALSE for any other.     *)
(***************************************************************************)
Word(w) == [t |-> "word", w |-> w, n |-> 0]
LinkTok(w, n) == [t |-> "link", w |-> w, n |-> n]
LHead(w, n) == [t |-> "lhead", w |-> w, n |-> n]
LTail(w, n) == [t |-> "ltail", w |-> w, n |-> n]
Code(n) == [t |-> "code", w |-> 0, n |-> n]

SoUrl(q) == [so |-> TRUE, q |-> q]
ExtUrl == [so |-> FALSE, q |-> 0]

Html(toks, hrefs) == [toks |-> toks, hrefs |-> hrefs]

Answer(id, author_is_erwin, text, ncomments) ==
    [id |-> id, erwin |-> author_is_erwin, answer_text |-> text, ncomments |-> ncomments]

\* The rows of the questions table with their answers and comment counts.
\* A title is the sequence of its characters ("space" is the blank).
Database ==
    << [id |-> 1, title |-> << "a", "b" >>, score |-> 5,
        view_count |-> 30, answer_count |-> 3, creation_date |-> 200,
        body |-> Html(<< Word(30), LinkTok(20, 1), LHead(20, 2), LTail(20, 2) >>,
                      << SoUrl(2), ExtUrl >>),
        ncomments |-> 1,
        answers |-> << Answer(11, FALSE, Html(<< Word(30), LinkTok(30, 1) >>, << SoUrl(9) >>), 0),
                       Answer(12, TRUE, Html(<< Word(30), Code(2), LinkTok(30, 1) >>, << SoUrl(3) >>), 1),
                       Answer(13, TRUE, Html(<< Word(30), Word(30), Word(30), LinkTok(30, 1) >>,
                                             << ExtUrl >>), 0) >> ],
      [id |-> 2, title |-> << "b", "a" >>, score |-> 9,
        view_count |-> 30, answer_count |-> 1, creation_date |-> 100,
        body |-> Html(<< LinkTok(30, 1), Word(40) >>, << SoUrl(1) >>),
        ncomments |-> 0,
        answers |-> << Answer(21, FALSE, Html(<< Word(30) >>, << >>), 2) >> ],
      [id |-> 3, title |-> << "a", "space", "b" >>, score |-> 7,
        view_count |-> 10, answer_count |-> 1, creation_date |-> 300,
        body |-> Html(<< Word(30) >>, << >>),
        ncomments |-> 0,
        answers |-> << Answer(31, TRUE, Html(<< Word(30), LinkTok(20, 1) >>, << SoUrl(2) >>), 0) >> ] >>

QuestionIds == { Database[i].id : i \in 1..Len(Database) }
Row(id) == CHOOSE r \in { Database[i] : i \in 1..Len(Database) } : r.id = id

(***************************************************************************)
(* src/src/html.rs                                                         *)
(***************************************************************************)
\* A Link as html.rs declares it; line_index counts from 0 as in the code.
Link(url, line_index, link_num, question_id) ==
    [url |-> url, line_index |-> line_index, link_num |-> link_num, question_id |-> question_id]

\* An extraction that annotates a link only when the question is loaded.
extract_local_question_id(url) ==
    IF url.so /\ url.q \in QuestionIds THEN Some(url.q) ELSE None

\* SO_QUESTION_REGEX: the id of a stackoverflow question URL, if it is one.
extract_so_question_id(url) == IF url.so THEN Some(url.q) ELSE None

\* html2text::from_read(.., width): greedy word wrap. cur is the line being
\* filled and used its display width; a code placeholder is a block of its
\* own and so stands alone on its line.
RECURSIVE WrapFrom(_, _, _, _, _)
WrapFrom(toks, i, cur, used, width) ==
    IF i > Len(toks)
    THEN IF cur = << >> THEN << >> ELSE << cur >>
    ELSE LET tk == toks[i] IN
         IF tk.t = "code"
         THEN (IF cur = << >> THEN << >> ELSE << cur >>)
              \o << << tk >> >> \o WrapFrom(toks, i + 1, << >>, 0, width)
         ELSE IF cur = << >>
         THEN WrapFrom(toks, i + 1, << tk >>, tk.w, width)
         ELSE IF used + 1 + tk.w <= width
         THEN WrapFrom(toks, i + 1, Append(cur, tk), used + 1 + tk.w, width)
         ELSE << cur >> \o WrapFrom(toks, i + 1, << tk >>, tk.w, width)

\* LINK_REF_REGEX on one line of text: the numbers n of the "[text][n]"
\* references the line holds, left to right. A reference whose text was
\* broken over two lines matches on neither.
LineRefs(line) ==
    LET Matches(j) == \/ line[j].t = "link"
                      \/ /\ line[j].t = "lhead"
                         /\ j < Len(line)
                         /\ line[j + 1].t = "ltail"
                         /\ line[j + 1].n = line[j].n
        idx == [j \in 1..Len(line) |-> j]
        hit == SelectSeq(idx, Matches)
    IN [k \in 1..Len(hit) |-> line[hit[k]].n]

\* The Links of one non-code line that is about to be pushed at line_index.
LinksOfLine(line, line_index, hrefs) ==
    LET refs == LineRefs(line)
        ok(n) == n > 0 /\ n <= Len(hrefs)
        valid == SelectSeq(refs, ok)
    IN [k \in 1..Len(valid) |->
           Link(hrefs[valid[k]], line_index, valid[k], extract_so_question_id(hrefs[valid[k]]))]

\* The loop over text.lines() of html_to_content.
RECURSIVE ContentFrom(_, _, _, _, _)
ContentFrom(text, i, lines, links, hrefs) ==
    IF i > Len(text)
    THEN [lines |-> lines, links |-> links]
    ELSE LET line == text[i] IN
         IF line[1].t = "code"
         THEN ContentFrom(text, i + 1,
                          lines \o [k \in 1..line[1].n |-> "code"], links, hrefs)
         ELSE ContentFrom(text, i + 1,
                          Append(lines, "text"),
                          links \o LinksOfLine(line, Len(lines), hrefs), hrefs)

html_to_content(html, width) ==
    ContentFrom(WrapFrom(html.toks, 1, << >>, 0, width), 1, << >>, << >>, html.hrefs)

\* is_erwin(author_name), read off the row of the answer
is_erwin(answer) == answer.erwin

(***************************************************************************)
(* src/src/content.rs. A composed line is kept by what it is (k), the      *)
(* number of the answer whose section it belongs to (a, 0 outside the      *)
(* answers; the header of answer i reads "ANSWER i") and whether it is     *)
(* printed in the distinguished author's style (e). A list of comments is  *)
(* kept by its length, the only thing of it that composition depends on.   *)
(***************************************************************************)
Ln(k, a, e) == [k |-> k, a |-> a, e |-> e]

\* Faulty variant of Shift: the fragment-local line_index is kept.
Shift_none(links, offset) == links

\* `link.line_index += offset` for every link of a fragment
Shift(links, offset) ==
    [k \in 1..Len(links) |-> [links[k] EXCEPT !.line_index = @ + offset]]

\* "Comments (n)" and, per comment, a blank line and the comment's line;
\* nothing when there are no comments.
CommentLines(n, a) ==
    IF n = 0 THEN << >>
    ELSE << Ln("blank", a, FALSE), Ln("comments_header", a, FALSE) >>
         \o [k \in 1..(2 * n) |-> IF k % 2 = 1 THEN Ln("blank", a, FALSE)
                                               ELSE Ln("comment", a, FALSE)]

\* A section whose jump position is the line of the answer's header itself.
IncludedSection_at_header(acc, i, answer, answer_comments, content_width) ==
    LET author_is_erwin == is_erwin(answer)
        sep == acc.lines \o << Ln("blank", i, FALSE), Ln("separator", i, FALSE),
                               Ln("blank", i, FALSE) >>
        positions == IF author_is_erwin
                     THEN Append(acc.erwin_positions, Len(sep))
                     ELSE acc.erwin_positions
        head == sep \o << Ln("answer_header", i, author_is_erwin),
                          Ln("by", i, author_is_erwin), Ln("blank", i, FALSE) >>
        answer_content == html_to_content(answer.answer_text, content_width)
        answer_link_offset == Len(head)
        body == head \o [k \in 1..Len(answer_content.lines) |->
                            Ln(answer_content.lines[k], i, author_is_erwin)]
        comments == IF i <= Len(answer_comments) THEN answer_comments[i] ELSE 0
    IN [lines |-> body \o CommentLines(comments, i),
        erwin_positions |-> positions,
        links |-> acc.links \o Shift(answer_content.links, answer_link_offset)]

\* The body of `for (i, answer) in answers.iter().enumerate()` below the
\* `continue`: the section of one included answer, appended to acc (the
\* lines, erwin_positions and links built so far).
IncludedSection(acc, i, answer, answer_comments, content_width) ==
    LET author_is_erwin == is_erwin(answer)
        sep == acc.lines \o << Ln("blank", i, FALSE), Ln("separator", i, FALSE),
                               Ln("blank", i, FALSE) >>
        positions == IF author_is_erwin
                     THEN Append(acc.erwin_positions, SatSub(Len(sep), 3))
                     ELSE acc.erwin_positions
        head == sep \o << Ln("answer_header", i, author_is_erwin),
                          Ln("by", i, author_is_erwin), Ln("blank", i, FALSE) >>
        answer_content == html_to_content(answer.answer_text, content_width)
        answer_link_offset == Len(head)
        body == head \o [k \in 1..Len(answer_content.lines) |->
                            Ln(answer_content.lines[k], i, author_is_erwin)]
        comments == IF i <= Len(answer_comments) THEN answer_comments[i] ELSE 0
    IN [lines |-> body \o CommentLines(comments, i),
        erwin_positions |-> positions,
        links |-> acc.links \o Shift(answer_content.links, answer_link_offset)]

\* Faulty variant of AnswerSection: no answer is ever skipped.
AnswerSection_noskip(acc, i, answer, answer_comments, content_width, hide_erwin) ==
    IncludedSection(acc, i, answer, answer_comments, content_width)

\* One iteration of the loop: "Skip Erwin's answers when shown in dedicated
\* pane", else the section.
AnswerSection(acc, i, answer, answer_comments, content_width, hide_erwin) ==
    IF is_erwin(answer) /\ hide_erwin THEN acc
    ELSE IncludedSection(acc, i, answer, answer_comments, content_width)

RECURSIVE AnswersFrom(_, _, _, _, _, _)
AnswersFrom(acc, i, answers, answer_comments, content_width, hide_erwin) ==
    IF i > Len(answers) THEN acc
    ELSE AnswersFrom(AnswerSection(acc, i, answers[i], answer_comments,
                                   content_width, hide_erwin),
                     i + 1, answers, answer_comments, content_width, hide_erwin)

build_question_content(question, answers, question_comments, answer_comments, width, hide_erwin) ==
    LET content_width == SatSub(width, 4)
        top == << Ln("title", 0, FALSE), Ln("url", 0, FALSE), Ln("meta", 0, FALSE),
                  Ln("blank", 0, FALSE), Ln("separator", 0, FALSE), Ln("blank", 0, FALSE),
                  Ln("question_header", 0, FALSE), Ln("blank", 0, FALSE) >>
        body_content == html_to_content(question.body, content_width)
        link_offset == Len(top)
        body == top \o [k \in 1..Len(body_content.lines) |->
                           Ln(body_content.lines[k], 0, FALSE)]
        start == [lines |-> body \o CommentLines(question_comments, 0),
                  erwin_positions |-> << >>,
                  links |-> Shift(body_content.links, link_offset)]
        all == AnswersFrom(start, 1, answers, answer_comments, content_width, hide_erwin)
    IN [lines |-> all.lines \o << Ln("blank", 0, FALSE), Ln("separator", 0, FALSE) >>,
        erwin_positions |-> all.erwin_positions,
        links |-> all.links]

build_erwin_content(answer, comments, width) ==
    LET content_width == SatSub(width, 6)
        head == << Ln("answer_header", 0, TRUE), Ln("by", 0, TRUE), Ln("blank", 0, FALSE) >>
        answer_content == html_to_content(answer.answer_text, content_width)
        link_offset == Len(head)
        body == head \o [k \in 1..Len(answer_content.lines) |->
                            Ln(answer_content.lines[k], 0, FALSE)]
    IN [lines |-> body \o CommentLines(comments, 0),
        links |-> Shift(answer_content.links, link_offset)]

(***************************************************************************)
(* src/src/app.rs: the navigator. `self` is a record of the App fields.    *)
(* `db` is what Storage answers during this call: db.q, db.a, db.qc and    *)
(* db.ac tell whether get_question, get_answers, get_question_comments     *)
(* and get_answer_comments succeed (a failed call yields None / empty).    *)
(***************************************************************************)
\* self.questions: loaded once by App::new with get_questions(), which
\* orders the rows by id descending.
questions == [i \in 1..Len(Database) |-> Database[Len(Database) + 1 - i]]

erwin_answer_count(self) ==
    Len(SelectSeq(self.current_answers, is_erwin))

\* .filter(is_erwin).nth(erwin_answer_index)
get_current_erwin_answer(self) ==
    LET erwins == SelectSeq(self.current_answers, is_erwin) IN
    IF self.erwin_answer_index < Len(erwins)
    THEN Some(erwins[self.erwin_answer_index + 1]) ELSE None

\* Faulty variant of rebuild_content: the links, the jump positions and the
\* width are replaced, the lines are not.
rebuild_content_keep_lines(self) ==
    IF IsSome(self.current_question)
    THEN LET hide_erwin == self.erwin_pane_visible /\ self.width >= 160
             content == build_question_content(Unwrap(self.current_question),
                            self.current_answers, self.current_comments,
                            self.answer_comments, self.width, hide_erwin)
         IN [self EXCEPT !.erwin_answer_positions = content.erwin_positions,
                         !.content_links = content.links,
                         !.rendered_width = self.width]
    ELSE self

\* A recomposition that keeps what the last one collected: the links and
\* jump positions of each composition are added to those already there.
rebuild_content_accumulating(self) ==
    IF IsSome(self.current_question)
    THEN LET hide_erwin == self.erwin_pane_visible /\ self.width >= 160
             content == build_question_content(Unwrap(self.current_question),
                            self.current_answers, self.current_comments,
                            self.answer_comments, self.width, hide_erwin)
         IN [self EXCEPT !.rendered_content = content.lines,
                         !.erwin_answer_positions = @ \o content.erwin_positions,
                         !.content_links = @ \o content.links,
                         !.rendered_width = self.width]
    ELSE self

rebuild_content(self) ==
    IF IsSome(self.current_question)
    THEN LET hide_erwin == self.erwin_pane_visible /\ self.width >= 160
             content == build_question_content(Unwrap(self.current_question),
                            self.current_answers, self.current_comments,
                            self.answer_comments, self.width, hide_erwin)
         IN [self EXCEPT !.rendered_content = content.lines,
                         !.erwin_answer_positions = content.erwin_positions,
                         !.content_links = content.links,
                         !.rendered_width = self.width]
    ELSE self

rebuild_erwin_content(self) ==
    LET cur == get_current_erwin_answer(self) IN
    IF IsSome(cur)
    THEN LET answer == Unwrap(cur)
             \* .position(|a| a.id == answer.id).and_then(|i| answer_comments.get(i))
             pos == CHOOSE i \in 1..Len(self.current_answers) :
                        /\ self.current_answers[i].id = answer.id
                        /\ \A j \in 1..(i - 1) : self.current_answers[j].id # answer.id
             comments == IF pos <= Len(self.answer_comments)
                         THEN self.answer_comments[pos] ELSE 0
             content == build_erwin_content(answer, comments, self.width \div 2)
         IN [self EXCEPT !.rendered_erwin_content = content.lines,
                         !.erwin_links = content.links]
    ELSE self

\* navigate_to_question below the push: the queries, the resets and the
\* rebuild.
load_question(self, question_id, db) ==
    LET found == question_id \in QuestionIds
        answers == IF db.a /\ found THEN Row(question_id).answers ELSE << >>
        loaded == [self EXCEPT
            !.current_question_id = question_id,
            !.current_question = IF db.q /\ found THEN Some(Row(question_id)) ELSE None,
            !.current_answers = answers,
            !.current_comments = IF db.qc /\ found THEN Row(question_id).ncomments ELSE 0,
            !.answer_comments = [k \in 1..Len(answers) |->
                                    IF db.ac THEN answers[k].ncomments ELSE 0],
            !.scroll_offset = 0,
            !.erwin_pane_visible = FALSE,
            !.erwin_answer_index = 0,
            !.left_pane_focused = TRUE,
            !.erwin_scroll_offset = 0,
            !.focused_link_index = None,
            !.page = "Show"]
    IN rebuild_content(loaded)

\* Faulty variant of navigate_to_question: the id navigated to is pushed.
navigate_to_question_pushes_target(self, question_id, db) ==
    LET pushed == IF self.page = "Show"
                  THEN Append(self.history, question_id)
                  ELSE self.history
    IN load_question([self EXCEPT !.history = pushed], question_id, db)

\* Faulty variant of navigate_to_question: the main pane stays scrolled.
navigate_to_question_keeps_scroll(self, question_id, db) ==
    LET pushed == IF self.page = "Show"
                  THEN Append(self.history, self.current_question_id)
                  ELSE self.history
    IN [load_question([self EXCEPT !.history = pushed], question_id, db)
            EXCEPT !.scroll_offset = self.scroll_offset]

\* Faulty variant of navigate_to_question: the pane stays as it was.
navigate_to_question_keeps_pane(self, question_id, db) ==
    LET pushed == IF self.page = "Show"
                  THEN Append(self.history, self.current_question_id)
                  ELSE self.history
    IN [load_question([self EXCEPT !.history = pushed], question_id, db)
            EXCEPT !.erwin_pane_visible = self.erwin_pane_visible]

\* Faulty variant of navigate_to_question: the answer cursor stays.
navigate_to_question_keeps_cursor(self, question_id, db) ==
    LET pushed == IF self.page = "Show"
                  THEN Append(self.history, self.current_question_id)
                  ELSE self.history
    IN [load_question([self EXCEPT !.history = pushed], question_id, db)
            EXCEPT !.erwin_answer_index = self.erwin_answer_index]

\* Faulty variant of navigate_to_question: nothing is pushed.
navigate_to_question_no_push(self, question_id, db) ==
    load_question(self, question_id, db)

navigate_to_question(self, question_id, db) ==
    LET pushed == IF self.page = "Show"
                  THEN Append(self.history, self.current_question_id)
                  ELSE self.history
    IN load_question([self EXCEPT !.history = pushed], question_id, db)

\* Faulty variant of go_back: straight to the index view, history kept.
go_back_to_index(self, db) ==
    [self EXCEPT !.page = "Index"]

\* Faulty variant of go_back: the entry navigate_to_question pushed stays.
go_back_keeps_pushed(self, db) ==
    IF self.history # << >>
    THEN LET prev_id == self.history[Len(self.history)]
             popped == [self EXCEPT !.history = SubSeq(@, 1, Len(@) - 1)]
         IN navigate_to_question(popped, prev_id, db)
    ELSE [self EXCEPT !.page = "Index"]

go_back(self, db) ==
    IF self.history # << >>
    THEN LET prev_id == self.history[Len(self.history)]
             popped == [self EXCEPT !.history = SubSeq(@, 1, Len(@) - 1)]
             there == navigate_to_question(popped, prev_id, db)
         IN [there EXCEPT !.history = SubSeq(@, 1, Len(@) - 1)]
    ELSE [self EXCEPT !.page = "Index"]

\* Faulty variant of handle_resize: every resize scrolls back to the top.
handle_resize_resets_scroll(self, width, height) ==
    LET width_changed == self.width # width
        sized == [self EXCEPT !.width = width, !.height = height, !.scroll_offset = 0]
    IN IF width_changed /\ self.page = "Show" /\ IsSome(self.current_question)
       THEN rebuild_content(sized)
       ELSE sized

handle_resize(self, width, height) ==
    LET width_changed == self.width # width
        sized == [self EXCEPT !.width = width, !.height = height]
    IN IF width_changed /\ self.page = "Show" /\ IsSome(self.current_question)
       THEN rebuild_content(sized)
       ELSE sized

\* The link list and the scroll offset cycle_link and get_focused_link use.
erwin_focused(self) == self.erwin_pane_visible /\ ~self.left_pane_focused
focused_links(self) ==
    IF erwin_focused(self) THEN self.erwin_links ELSE self.content_links

\* Faulty variant of next_link_index: forward stops at the last link.
next_link_index_stops(focused, n, forward) ==
    IF IsSome(focused)
    THEN LET current == Unwrap(focused) IN
         IF forward
         THEN (IF current + 1 >= n THEN current ELSE current + 1)
         ELSE (IF current = 0 THEN n - 1 ELSE current - 1)
    ELSE (IF forward THEN 0 ELSE n - 1)

\* Faulty variant of next_link_index: backward stops at the first link.
next_link_index_back_stops(focused, n, forward) ==
    IF IsSome(focused)
    THEN LET current == Unwrap(focused) IN
         IF forward
         THEN (IF current + 1 >= n THEN 0 ELSE current + 1)
         ELSE SatSub(current, 1)
    ELSE (IF forward THEN 0 ELSE n - 1)

\* "Calculate next link index": focused_link_index after one cycle_link over
\* a list of n >= 1 links.
next_link_index(focused, n, forward) ==
    IF IsSome(focused)
    THEN LET current == Unwrap(focused) IN
         IF forward
         THEN (IF current + 1 >= n THEN 0 ELSE current + 1)
         ELSE (IF current = 0 THEN n - 1 ELSE current - 1)
    ELSE (IF forward THEN 0 ELSE n - 1)

\* Scrolling that puts a link below the window on the window's first line
\* but leaves a link above the window where it is.
scroll_to_link_down_only(scroll_offset, line_index, visible_height) ==
    IF line_index >= scroll_offset + visible_height THEN line_index
    ELSE scroll_offset

\* "Scroll to make the link visible"
scroll_to_link(scroll_offset, line_index, visible_height) ==
    IF line_index < scroll_offset THEN line_index
    ELSE IF line_index >= scroll_offset + visible_height
    THEN SatSub(line_index, visible_height \div 2)
    ELSE scroll_offset

cycle_link(self, forward) ==
    LET links == focused_links(self) IN
    IF links = << >> THEN self
    ELSE LET new_index == next_link_index(self.focused_link_index, Len(links), forward)
             visible_height == SatSub(self.height, 2)
             old == IF erwin_focused(self) THEN self.erwin_scroll_offset
                                           ELSE self.scroll_offset
             \* if let Some(link) = links.get(new_index)
             new == IF new_index < Len(links)
                    THEN scroll_to_link(old, links[new_index + 1].line_index, visible_height)
                    ELSE old
         IN IF erwin_focused(self)
            THEN [self EXCEPT !.focused_link_index = Some(new_index),
                              !.erwin_scroll_offset = new]
            ELSE [self EXCEPT !.focused_link_index = Some(new_index),
                              !.scroll_offset = new]

get_focused_link(self) ==
    LET links == focused_links(self) IN
    IF IsSome(self.focused_link_index) /\ Unwrap(self.focused_link_index) < Len(links)
    THEN Some(links[Unwrap(self.focused_link_index) + 1]) ELSE None

\* The offset a scroll key asks for, from the offset x of the pane that has
\* focus; page is height.saturating_sub(2).
scroll_target(key, x, page) ==
    CASE key = "j" -> x + 1
      [] key = "k" -> SatSub(x, 1)
      [] key \in {"space", "d"} -> x + page
      [] key = "u" -> SatSub(x, page)
      [] key = "g" -> 0
      [] key = "G" -> SCROLL_BOTTOM

\* The scroll keys: the focus on a link is dropped and the pane that has
\* focus is scrolled.
scroll_focused(self, key) ==
    LET cleared == [self EXCEPT !.focused_link_index = None]
        page == SatSub(self.height, 2)
    IN IF erwin_focused(self)
       THEN [cleared EXCEPT !.erwin_scroll_offset = scroll_target(key, @, page)]
       ELSE [cleared EXCEPT !.scroll_offset = scroll_target(key, @, page)]

\* 'e' that wraps the cursor in the pane without closing the pane.
toggle_erwin_forward_stays_open(self) ==
    LET cleared == [self EXCEPT !.focused_link_index = None]
        erwin_count == erwin_answer_count(self)
    IN IF erwin_count = 0 THEN cleared
       ELSE IF self.width >= 160
       THEN IF ~self.erwin_pane_visible
            THEN rebuild_erwin_content(rebuild_content(
                     [cleared EXCEPT !.erwin_pane_visible = TRUE,
                                     !.left_pane_focused = FALSE,
                                     !.erwin_scroll_offset = 0]))
            ELSE IF self.left_pane_focused
            THEN [cleared EXCEPT !.left_pane_focused = FALSE]
            ELSE rebuild_erwin_content(
                     [cleared EXCEPT !.erwin_answer_index = (@ + 1) % erwin_count,
                                     !.erwin_scroll_offset = 0])
       ELSE LET index == (self.erwin_answer_index + 1) % erwin_count
                moved == [cleared EXCEPT !.erwin_answer_index = index]
            IN IF index < Len(self.erwin_answer_positions)
               THEN [moved EXCEPT !.scroll_offset = self.erwin_answer_positions[index + 1]]
               ELSE moved

\* KeyCode::Char('e')
toggle_erwin_forward(self) ==
    LET cleared == [self EXCEPT !.focused_link_index = None]
        erwin_count == erwin_answer_count(self)
    IN IF erwin_count = 0 THEN cleared
       ELSE IF self.width >= 160
       THEN IF ~self.erwin_pane_visible
            THEN rebuild_erwin_content(rebuild_content(
                     [cleared EXCEPT !.erwin_pane_visible = TRUE,
                                     !.left_pane_focused = FALSE,
                                     !.erwin_scroll_offset = 0]))
            ELSE IF self.left_pane_focused
            THEN [cleared EXCEPT !.left_pane_focused = FALSE]
            ELSE LET index == (self.erwin_answer_index + 1) % erwin_count
                     moved == [cleared EXCEPT !.erwin_answer_index = index]
                     closed == IF index = 0
                               THEN rebuild_content(
                                        [moved EXCEPT !.erwin_pane_visible = FALSE,
                                                      !.left_pane_focused = TRUE])
                               ELSE moved
                 IN rebuild_erwin_content([closed EXCEPT !.erwin_scroll_offset = 0])
       ELSE LET index == (self.erwin_answer_index + 1) % erwin_count
                moved == [cleared EXCEPT !.erwin_answer_index = index]
            IN IF index < Len(self.erwin_answer_positions)
               THEN [moved EXCEPT !.scroll_offset = self.erwin_answer_positions[index + 1]]
               ELSE moved

\* 'E' that closes the pane as soon as the cursor is on the first answer.
toggle_erwin_backward_closes(self) ==
    LET cleared == [self EXCEPT !.focused_link_index = None]
        erwin_count == erwin_answer_count(self)
    IN IF erwin_count = 0 THEN cleared
       ELSE IF self.width >= 160 /\ self.erwin_pane_visible
       THEN IF ~self.left_pane_focused /\ self.erwin_answer_index > 0
            THEN rebuild_erwin_content(
                     [cleared EXCEPT !.erwin_answer_index = SatSub(@, 1),
                                     !.erwin_scroll_offset = 0])
            ELSE rebuild_content([cleared EXCEPT !.erwin_pane_visible = FALSE,
                                                 !.left_pane_focused = TRUE])
       ELSE IF self.width < 160
       THEN LET index == IF self.erwin_answer_index = 0 THEN erwin_count - 1
                         ELSE self.erwin_answer_index - 1
                moved == [cleared EXCEPT !.erwin_answer_index = index]
            IN IF index < Len(self.erwin_answer_positions)
               THEN [moved EXCEPT !.scroll_offset = self.erwin_answer_positions[index + 1]]
               ELSE moved
       ELSE cleared

\* KeyCode::Char('E')
toggle_erwin_backward(self) ==
    LET cleared == [self EXCEPT !.focused_link_index = None]
        erwin_count == erwin_answer_count(self)
    IN IF erwin_count = 0 THEN cleared
       ELSE IF self.width >= 160 /\ self.erwin_pane_visible
       THEN IF ~self.left_pane_focused /\ self.erwin_answer_index = 0
            THEN [cleared EXCEPT !.left_pane_focused = TRUE]
            ELSE IF ~self.left_pane_focused
            THEN rebuild_erwin_content(
                     [cleared EXCEPT !.erwin_answer_index = SatSub(@, 1),
                                     !.erwin_scroll_offset = 0])
            ELSE rebuild_content([cleared EXCEPT !.erwin_pane_visible = FALSE])
       ELSE IF self.width < 160
       THEN LET index == IF self.erwin_answer_index = 0 THEN erwin_count - 1
                         ELSE self.erwin_answer_index - 1
                moved == [cleared EXCEPT !.erwin_answer_index = index]
            IN IF index < Len(self.erwin_answer_positions)
               THEN [moved EXCEPT !.scroll_offset = self.erwin_answer_positions[index + 1]]
               ELSE moved
       ELSE cleared

QuestionUrl(id) == SoUrl(id)

\* 'o' that hands every focused link to open::that, local or not.
open_key_external(self, db) ==
    LET focused == get_focused_link(self) IN
    IF IsSome(focused)
    THEN [self EXCEPT !.opened = Some(Unwrap(focused).url)]
    ELSE [self EXCEPT !.opened = Some(QuestionUrl(self.current_question_id))]

\* KeyCode::Char('o'); `opened` records the URL handed to open::that
open_key(self, db) ==
    LET focused == get_focused_link(self) IN
    IF IsSome(focused)
    THEN LET link == Unwrap(focused) IN
         IF /\ IsSome(link.question_id)
            /\ \E k \in 1..Len(questions) : questions[k].id = Unwrap(link.question_id)
         THEN navigate_to_question(self, Unwrap(link.question_id), db)
         ELSE [self EXCEPT !.opened = Some(link.url)]
    ELSE [self EXCEPT !.opened = Some(QuestionUrl(self.current_question_id))]

\* Faulty variant of handle_show_key: 'q' quits from the document view.
handle_show_key_q_quits(self, key, db) ==
    IF key = "q" THEN [self EXCEPT !.should_quit = TRUE]
    ELSE IF key \in {"b", "Esc"} THEN go_back(self, db)
    ELSE self

handle_show_key(self, key, db) ==
    CASE key = "Esc" -> IF IsSome(self.focused_link_index)
                        THEN [self EXCEPT !.focused_link_index = None]
                        ELSE go_back(self, db)
      [] key \in {"q", "b"} -> go_back(self, db)
      [] key \in {"j", "k", "space", "d", "u", "g", "G"} -> scroll_focused(self, key)
      [] key = "e" -> toggle_erwin_forward(self)
      [] key = "E" -> toggle_erwin_backward(self)
      [] key = "o" -> open_key(self, db)
      [] key = "Tab" -> cycle_link(self, TRUE)
      [] key = "BackTab" -> cycle_link(self, FALSE)
      [] OTHER -> self

visible_questions_count(self) ==
    IF IsSome(self.fuzzy_matches) THEN Len(Unwrap(self.fuzzy_matches))
    ELSE IF IsSome(self.semantic_results) THEN Len(Unwrap(self.semantic_results))
    ELSE Len(questions)

\* slice::sort_by on integer keys, descending: the positions of keys in
\* sorted order. The sort is stable, so equal keys keep their order.
SortedIndices(keys) ==
    LET n == Len(keys)
        rank(k) == Cardinality({j \in 1..n : \/ keys[j] > keys[k]
                                              \/ (keys[j] = keys[k] /\ j < k)})
    IN [i \in 1..n |-> CHOOSE k \in 1..n : rank(k) = i - 1]

\* Atom::indices with AtomKind::Fuzzy: the characters of the pattern are
\* looked for in the text in order, each at the leftmost position after the
\* previous one; None when one of them is missing.
RECURSIVE GreedyIndices(_, _, _, _)
GreedyIndices(pattern, i, text, from) ==
    IF i > Len(pattern) THEN Some(<< >>)
    ELSE LET hits == { p \in from..Len(text) : text[p] = pattern[i] } IN
         IF hits = {} THEN None
         ELSE LET p == CHOOSE h \in hits : \A q \in hits : h <= q
                  rest == GreedyIndices(pattern, i + 1, text, p + 1)
              IN IF IsSome(rest) THEN Some(<< p >> \o Unwrap(rest)) ELSE None

\* FuzzyMatcher::match_indices: a score and the matched positions, or None.
\* The score grows with the length of the pattern and falls with the gaps
\* between the matched characters.
match_indices(pattern, text) ==
    IF pattern = << >> THEN None
    ELSE LET m == GreedyIndices(pattern, 1, text, 1) IN
         IF IsSome(m)
         THEN LET ix == Unwrap(m) IN
              Some([score |-> 16 * Len(pattern) - (ix[Len(ix)] - ix[1] + 1 - Len(pattern)),
                    indices |-> ix])
         ELSE None

\* fuzzy_filter(items, pattern, |q| &q.title): the matching items by their
\* position in items (from 0), sorted by score descending.
fuzzy_filter(items, pattern) ==
    IF pattern = << >> THEN << >>
    ELSE LET all == [i \in 1..Len(items) |-> match_indices(pattern, items[i].title)]
             hit == SelectSeq([i \in 1..Len(items) |-> i], LAMBDA i : IsSome(all[i]))
             matches == [k \in 1..Len(hit) |->
                            [index |-> hit[k] - 1, score |-> Unwrap(all[hit[k]]).score]]
             order == SortedIndices([k \in 1..Len(matches) |-> matches[k].score])
         IN [k \in 1..Len(matches) |-> matches[order[k]]]

update_fuzzy_search(self) ==
    [self EXCEPT !.fuzzy_matches = IF self.search_input = << >> THEN None
                                   ELSE Some(fuzzy_filter(questions, self.search_input)),
                 !.selected_index = 0]

\* embed_calls records the call of semantic.embed.
\* db.embed: SemanticSearch::embed succeeds; db.found: what
\* Database::semantic_search returns, None for an Err.
perform_semantic_search(self, db) ==
    IF self.search_input = << >> THEN [self EXCEPT !.semantic_results = None]
    ELSE IF ~self.semantic THEN self
    ELSE LET called == [self EXCEPT !.embed_calls = Append(@, self.search_input)] IN
         IF ~db.embed THEN called
         ELSE IF ~IsSome(db.found) THEN called
         ELSE [called EXCEPT !.semantic_results = Some(Unwrap(db.found)),
                             !.selected_index = 0]

toggle_sort(self, column) ==
    IF self.sort_column = column
    THEN [self EXCEPT !.sort_direction = IF @ = "Asc" THEN "Desc" ELSE "Asc",
                      !.selected_index = 0]
    ELSE [self EXCEPT !.sort_column = column, !.sort_direction = "Desc",
                      !.selected_index = 0]

\* The key sort_by compares for a column.
SortKey(q, column) ==
    CASE column = "Id" -> q.id
      [] column = "Date" -> q.creation_date
      [] column = "Score" -> q.score
      [] column = "Views" -> q.view_count
      [] column = "Answers" -> q.answer_count

get_sorted_questions(self) ==
    IF IsSome(self.fuzzy_matches)
    THEN LET matches == Unwrap(self.fuzzy_matches) IN
         [k \in 1..Len(matches) |-> questions[matches[k].index + 1]]
    ELSE IF IsSome(self.semantic_results)
    THEN LET ids == Unwrap(self.semantic_results)
             known == SelectSeq(ids, LAMBDA id : id \in QuestionIds)
         IN [k \in 1..Len(known) |-> Row(known[k])]
    ELSE LET n == Len(questions)
             keys == [k \in 1..n |->
                         IF self.sort_direction = "Desc"
                         THEN SortKey(questions[k], self.sort_column)
                         ELSE 0 - SortKey(questions[k], self.sort_column)]
             order == SortedIndices(keys)
         IN [i \in 1..n |-> questions[order[i]]]

get_selected_question(self) ==
    LET sorted == get_sorted_questions(self) IN
    IF self.selected_index < Len(sorted) THEN Some(sorted[self.selected_index + 1]) ELSE None

\* KeyCode::Char(c) without the control modifier; "space" is the blank.
Chars == { "q", "b", "j", "k", "d", "u", "g", "G", "e", "E", "o", "a", "/", "?",
           "1", "2", "3", "4", "5", "space" }

\* String::rfind(' ') and truncate: the input up to its last blank, or
\* nothing when it has no blank.
delete_last_word(input) ==
    LET blanks == { p \in 1..Len(input) : input[p] = "space" } IN
    IF blanks = {} THEN << >>
    ELSE SubSeq(input, 1, (CHOOSE p \in blanks : \A q \in blanks : q <= p) - 1)

\* A search-as-you-type variant: in semantic mode every typed character
\* runs the semantic search.
handle_search_key_eager(self, key, db) ==
    CASE key = "Esc" -> [self EXCEPT !.search_mode = "None", !.search_input = << >>,
                                     !.fuzzy_matches = None, !.selected_index = 0]
      [] key = "Enter" -> [self EXCEPT !.search_mode = "None"]
      [] key = "Backspace" -> [self EXCEPT !.search_input = SubSeq(@, 1, Len(@) - 1)]
      [] key = "C-u" -> [self EXCEPT !.search_input = << >>]
      [] key = "C-w" -> [self EXCEPT !.search_input = delete_last_word(@)]
      [] key \in Chars ->
            LET typed == [self EXCEPT !.search_input = Append(@, key)] IN
            IF self.search_mode = "Semantic" THEN perform_semantic_search(typed, db)
            ELSE update_fuzzy_search(typed)
      [] OTHER -> self

\* handle_index_key while a search is being typed (search_mode # None).
handle_search_key(self, key, db) ==
    LET refresh(a) == IF a.search_mode = "Title" THEN update_fuzzy_search(a) ELSE a IN
    CASE key = "Esc" -> [self EXCEPT !.search_mode = "None", !.search_input = << >>,
                                     !.fuzzy_matches = None, !.selected_index = 0]
      [] key = "Enter" ->
            LET searched == IF self.search_mode = "Semantic" /\ self.search_input # << >>
                            THEN perform_semantic_search(self, db)
                            ELSE self
            IN [searched EXCEPT !.search_mode = "None"]
      [] key = "Backspace" ->
            refresh([self EXCEPT !.search_input = SubSeq(@, 1, Len(@) - 1)])
      [] key = "C-u" -> refresh([self EXCEPT !.search_input = << >>])
      [] key = "C-w" -> refresh([self EXCEPT !.search_input = delete_last_word(@)])
      [] key \in Chars -> refresh([self EXCEPT !.search_input = Append(@, key)])
      [] OTHER -> self

\* Faulty variant of clear_search: the selection stays where it was.
clear_search_keeps_selection(self) ==
    [self EXCEPT !.fuzzy_matches = None, !.semantic_results = None,
                 !.search_input = << >>]

\* The results of a search are dropped ('q' and Esc in normal mode).
clear_search(self) ==
    [self EXCEPT !.fuzzy_matches = None, !.semantic_results = None,
                 !.search_input = << >>, !.selected_index = 0]

handle_index_key(self, key, db) ==
    LET max == SatSub(visible_questions_count(self), 1)
        visible == SatSub(self.height, 3)
        half == SatSub(self.height, 3) \div 2
        searched == IsSome(self.fuzzy_matches) \/ IsSome(self.semantic_results)
    IN
    IF self.search_mode # "None" THEN handle_search_key(self, key, db)
    ELSE
    CASE key = "q" -> IF searched THEN clear_search(self)
                      ELSE [self EXCEPT !.should_quit = TRUE]
      [] key = "/" -> [self EXCEPT !.search_mode = "Title", !.search_input = << >>]
      [] key = "?" -> [self EXCEPT !.search_mode = "Semantic", !.search_input = << >>]
      [] key = "Esc" -> IF searched THEN clear_search(self) ELSE self
      [] key = "j" -> [self EXCEPT !.selected_index = Min(@ + 1, max)]
      [] key = "k" -> [self EXCEPT !.selected_index = SatSub(@, 1)]
      [] key = "g" -> [self EXCEPT !.selected_index = 0]
      [] key = "G" -> [self EXCEPT !.selected_index = max]
      [] key = "space" -> [self EXCEPT !.selected_index = Min(@ + visible, max)]
      [] key = "C-d" -> [self EXCEPT !.selected_index = Min(@ + half, max)]
      [] key = "C-u" -> [self EXCEPT !.selected_index = SatSub(@, half)]
      [] key = "1" -> toggle_sort(self, "Id")
      [] key = "2" -> toggle_sort(self, "Date")
      [] key = "3" -> toggle_sort(self, "Score")
      [] key = "4" -> toggle_sort(self, "Views")
      [] key = "5" -> toggle_sort(self, "Answers")
      [] key = "Enter" -> LET question == get_selected_question(self) IN
                          IF IsSome(question)
                          THEN navigate_to_question(self, Unwrap(question).id, db)
                          ELSE self
      [] key = "o" -> LET question == get_selected_question(self) IN
                      IF IsSome(question)
                      THEN [self EXCEPT !.opened = Some(QuestionUrl(Unwrap(question).id))]
                      ELSE self
      [] OTHER -> self

\* Faulty variant of handle_key: Esc in the document view always goes back.
handle_key_esc_backs(self, key, db) ==
    IF self.page = "Index" THEN handle_index_key(self, key, db)
    ELSE IF key = "Esc" THEN go_back(self, db)
    ELSE handle_show_key(self, key, db)

handle_key(self, key, db) ==
    IF self.page = "Index" THEN handle_index_key(self, key, db)
    ELSE handle_show_key(self, key, db)

(***************************************************************************)
(* src/src/ui: the renderer, as far as it writes to App.                   *)
(***************************************************************************)
\* Faulty variant of clamp_scroll: the offset is left as it is.
clamp_scroll_none(offset, line_count, visible_rows) == offset

\* draw_question_pane / draw_erwin_pane: "Clamp scroll offset"
clamp_scroll(offset, line_count, visible_rows) ==
    Min(offset, SatSub(line_count, visible_rows))

draw_show(self, size) ==
    LET can_split == size.w >= DUAL_PANE_MIN_WIDTH
        \* Layout: header 1 row, content Min(1), status bar 1 row
        visible_rows == SatSub(size.h, 2)
        left == [self EXCEPT !.scroll_offset =
                     clamp_scroll(@, Len(self.rendered_content), visible_rows)]
    IN IF self.erwin_pane_visible /\ can_split
       THEN [left EXCEPT !.erwin_scroll_offset =
                 clamp_scroll(@, Len(self.rendered_erwin_content), visible_rows)]
       ELSE left

\* ui::draw; size is frame.area(), the size of the terminal at this draw
draw(self, size) ==
    LET sized == [self EXCEPT !.width = size.w, !.height = size.h] IN
    IF self.page = "Index" THEN sized ELSE draw_show(sized, size)

(***************************************************************************)
(* The state: the fields of App, and around them the terminal, the event   *)
(* queue and the position of run_app's loop.                               *)
(***************************************************************************)
VARIABLES
    should_quit, page, width, height,
    selected_index, sort_column, sort_direction, search_mode, search_input,
    fuzzy_matches, semantic_results, semantic,
    current_question_id, current_question, current_answers, current_comments,
    answer_comments, scroll_offset, erwin_pane_visible, erwin_answer_index,
    left_pane_focused, erwin_scroll_offset, focused_link_index,
    rendered_content, rendered_erwin_content, erwin_answer_positions,
    rendered_width, content_links, erwin_links, history,
    opened,          \* the URL given to open::that since the last draw, if any
    embed_calls,     \* the queries given to semantic.embed since the last draw
    term,            \* the size of the terminal, which frame.area() reads
    pending_resize,  \* the Resize event waiting in the queue, if any
    pc               \* run_app: "draw" before terminal.draw, "event" before events.next,
                     \* "done" once the loop has returned

app_vars == << should_quit, page, width, height,
    selected_index, sort_column, sort_direction, search_mode, search_input,
    fuzzy_matches, semantic_results, semantic,
    current_question_id, current_question, current_answers, current_comments,
    answer_comments, scroll_offset, erwin_pane_visible, erwin_answer_index,
    left_pane_focused, erwin_scroll_offset, focused_link_index,
    rendered_content, rendered_erwin_content, erwin_answer_positions,
    rendered_width, content_links, erwin_links, history, opened, embed_calls >>

vars == << app_vars, term, pending_resize, pc >>

\* The App of the current state.
App ==
    [should_quit |-> should_quit, page |-> page, width |-> width, height |-> height,
     selected_index |-> selected_index, sort_column |-> sort_column,
     sort_direction |-> sort_direction, search_mode |-> search_mode,
     search_input |-> search_input,
     fuzzy_matches |-> fuzzy_matches, semantic_results |-> semantic_results,
     semantic |-> semantic,
     current_question_id |-> current_question_id, current_question |-> current_question,
     current_answers |-> current_answers, current_comments |-> current_comments,
     answer_comments |-> answer_comments, scroll_offset |-> scroll_offset,
     erwin_pane_visible |-> erwin_pane_visible, erwin_answer_index |-> erwin_answer_index,
     left_pane_focused |-> left_pane_focused, erwin_scroll_offset |-> erwin_scroll_offset,
     focused_link_index |-> focused_link_index, rendered_content |-> rendered_content,
     rendered_erwin_content |-> rendered_erwin_content,
     erwin_answer_positions |-> erwin_answer_positions, rendered_width |-> rendered_width,
     content_links |-> content_links, erwin_links |-> erwin_links, history |-> history,
     opened |-> opened, embed_calls |-> embed_calls]

\* The next state's App is the record a.
Becomes(a) ==
    /\ should_quit' = a.should_quit /\ page' = a.page
    /\ width' = a.width /\ height' = a.height
    /\ selected_index' = a.selected_index /\ sort_column' = a.sort_column
    /\ sort_direction' = a.sort_direction /\ search_mode' = a.search_mode
    /\ search_input' = a.search_input /\ semantic' = a.semantic
    /\ fuzzy_matches' = a.fuzzy_matches /\ semantic_results' = a.semantic_results
    /\ current_question_id' = a.current_question_id
    /\ current_question' = a.current_question
    /\ current_answers' = a.current_answers /\ current_comments' = a.current_comments
    /\ answer_comments' = a.answer_comments /\ scroll_offset' = a.scroll_offset
    /\ erwin_pane_visible' = a.erwin_pane_visible
    /\ erwin_answer_index' = a.erwin_answer_index
    /\ left_pane_focused' = a.left_pane_focused
    /\ erwin_scroll_offset' = a.erwin_scroll_offset
    /\ focused_link_index' = a.focused_link_index
    /\ rendered_content' = a.rendered_content
    /\ rendered_erwin_content' = a.rendered_erwin_content
    /\ erwin_answer_positions' = a.erwin_answer_positions
    /\ rendered_width' = a.rendered_width
    /\ content_links' = a.content_links /\ erwin_links' = a.erwin_links
    /\ history' = a.history /\ opened' = a.opened
    /\ embed_calls' = a.embed_calls

\* App::new
NewApp ==
    [should_quit |-> FALSE, page |-> "Index", width |-> INIT_WIDTH, height |-> INIT_HEIGHT,
     selected_index |-> 0, sort_column |-> "Score", sort_direction |-> "Desc",
     search_mode |-> "None", search_input |-> << >>,
     fuzzy_matches |-> None, semantic_results |-> None, semantic |-> TRUE,
     current_question_id |-> 0, current_question |-> None,
     current_answers |-> << >>, current_comments |-> 0, answer_comments |-> << >>,
     scroll_offset |-> 0, erwin_pane_visible |-> FALSE, erwin_answer_index |-> 0,
     left_pane_focused |-> TRUE, erwin_scroll_offset |-> 0, focused_link_index |-> None,
     rendered_content |-> << >>, rendered_erwin_content |-> << >>,
     erwin_answer_positions |-> << >>, rendered_width |-> 0,
     content_links |-> << >>, erwin_links |-> << >>, history |-> << >>,
     opened |-> None, embed_calls |-> << >>]

\* The sizes the terminal takes.
Sizes == { [w |-> 80, h |-> 43], [w |-> 160, h |-> 43], [w |-> 160, h |-> 47] }

\* The keys the user presses.
Keys == { "Esc", "q", "b", "j", "k", "d", "u", "g", "G", "e", "E", "o",
          "Tab", "BackTab", "Enter" }

\* What Storage may answer during one call of a handler: every call
\* succeeds, or every call comes back empty (the rows are absent or the
\* database cannot be read).
DbOk == [q |-> TRUE, a |-> TRUE, qc |-> TRUE, ac |-> TRUE,
         embed |-> TRUE, found |-> Some(<< 2, 1 >>)]
DbAbsent == [q |-> FALSE, a |-> FALSE, qc |-> FALSE, ac |-> FALSE,
             embed |-> TRUE, found |-> None]
DbOutcomes == { DbOk, DbAbsent }

\* Only these keys can reach navigate_to_question, which queries Storage.
DbFor(key) == IF key \in {"Enter", "o", "Esc", "q", "b"} THEN DbOutcomes ELSE {DbOk}

\* The explored range: the history holds at most MaxHist entries, and the
\* distinguished pane, which is clamped only when it is drawn, is scrolled
\* by a line or a page only from an offset of at most MaxOffset (top and
\* bottom are always explored).
InRange(self, a) ==
    /\ Len(a.history) <= MaxHist
    /\ \/ a.erwin_scroll_offset = self.erwin_scroll_offset
       \/ a.erwin_scroll_offset \in {0, SCROLL_BOTTOM}
       \/ self.erwin_scroll_offset <= MaxOffset

\* Every field of App has the value it has in a.
Has(a) ==
    /\ should_quit = a.should_quit
    /\ page = a.page
    /\ width = a.width
    /\ height = a.height
    /\ selected_index = a.selected_index
    /\ sort_column = a.sort_column
    /\ sort_direction = a.sort_direction
    /\ search_mode = a.search_mode
    /\ search_input = a.search_input
    /\ semantic = a.semantic
    /\ fuzzy_matches = a.fuzzy_matches
    /\ semantic_results = a.semantic_results
    /\ current_question_id = a.current_question_id
    /\ current_question = a.current_question
    /\ current_answers = a.current_answers
    /\ current_comments = a.current_comments
    /\ answer_comments = a.answer_comments
    /\ scroll_offset = a.scroll_offset
    /\ erwin_pane_visible = a.erwin_pane_visible
    /\ erwin_answer_index = a.erwin_answer_index
    /\ left_pane_focused = a.left_pane_focused
    /\ erwin_scroll_offset = a.erwin_scroll_offset
    /\ focused_link_index = a.focused_link_index
    /\ rendered_content = a.rendered_content
    /\ rendered_erwin_content = a.rendered_erwin_content
    /\ erwin_answer_positions = a.erwin_answer_positions
    /\ rendered_width = a.rendered_width
    /\ content_links = a.content_links
    /\ erwin_links = a.erwin_links
    /\ history = a.history
    /\ opened = a.opened
    /\ embed_calls = a.embed_calls

Init ==
    /\ Has(NewApp)
    /\ term \in Sizes
    /\ pending_resize = None
    /\ pc = "draw"

\* The terminal is resized: its size changes at once, and a Resize event
\* carrying the new size is queued (EventHandler::next keeps the last one).
TermResize ==
    /\ pc # "done"
    /\ \E size \in Sizes \ {term} :
          /\ term' = size
          /\ pending_resize' = Some(size)
    /\ UNCHANGED << app_vars, pc >>

\* run_app: terminal.draw(|frame| ui::draw(frame, app))
Draw ==
    /\ pc = "draw"
    /\ Becomes(draw([App EXCEPT !.opened = None, !.embed_calls = << >>], term))
    /\ pc' = "event"
    /\ UNCHANGED << term, pending_resize >>

\* events.next() returns Event::Resize: "Prioritize resize events"
ResizeEvent ==
    /\ pc = "event"
    /\ IsSome(pending_resize)
    /\ LET size == Unwrap(pending_resize) IN
          Becomes(handle_resize(App, size.w, size.h))
    /\ pending_resize' = None
    /\ pc' = "draw"
    /\ UNCHANGED term

\* events.next() returns Event::Key(key); `if app.should_quit { return }`
KeyEvent ==
    /\ pc = "event"
    /\ pending_resize = None
    /\ \E key \in Keys : \E db \in DbFor(key) :
          \E a \in { handle_key(App, key, db) } :
          /\ InRange(App, a)
          /\ Becomes(a)
          /\ pc' = IF a.should_quit THEN "done" ELSE "draw"
          /\ UNCHANGED << term, pending_resize >>

\* events.next() returns Event::Tick
Tick ==
    /\ pc = "event"
    /\ pending_resize = None
    /\ pc' = "draw"
    /\ UNCHANGED << app_vars, term, pending_resize >>

Next == TermResize \/ Draw \/ ResizeEvent \/ KeyEvent \/ Tick

Spec == Init /\ [][Next]_vars

(***************************************************************************)
(* The index view with its searches. The terminal keeps its size; a search *)
(* is typed from a small alphabet; from a document the user only leaves.   *)
(***************************************************************************)
\* The longest search input explored.
MaxInput == 2

IndexKeys == { "/", "?", "Esc", "Enter", "Backspace", "C-u", "C-w", "C-d",
               "a", "space", "q", "j", "k", "g", "G", "o", "3" }

\* What the embedding model and the nearest-neighbour query answer to one
\* search: the model fails or embeds, the query fails or returns the ids of
\* the nearest rows of question_embeddings, at most the limit asked for (7
\* and 8 are ids of no loaded question).
Found == { None, Some(<< >>), Some(<< 3, 7 >>), Some(<< 3, 7, 8, 2 >>) }
SearchOutcomes == { [DbOk EXCEPT !.embed = e, !.found = f] : e \in BOOLEAN, f \in Found }

\* App::new: SemanticSearch::new().ok() is Some or None.
IndexInit ==
    /\ \E loaded \in BOOLEAN : Has([NewApp EXCEPT !.semantic = loaded])
    /\ term = [w |-> 80, h |-> 43]
    /\ pending_resize = None
    /\ pc = "draw"

\* events.next() returns Event::Key(key)
IndexKey ==
    /\ pc = "event"
    /\ pending_resize = None
    /\ \E key \in (IF page = "Index" THEN IndexKeys ELSE {"q"}) :
          \E db \in (IF key = "Enter" THEN SearchOutcomes ELSE {DbOk}) :
          \E a \in { handle_key(App, key, db) } :
          /\ Len(a.search_input) <= MaxInput
          /\ Becomes(a)
          /\ pc' = IF a.should_quit THEN "done" ELSE "draw"
          /\ UNCHANGED << term, pending_resize >>

IndexNext == Draw \/ IndexKey

IndexSpec == IndexInit /\ [][IndexNext]_vars

(***************************************************************************)
(* src/src/event.rs and run_app's match: the loop driven by the batches of *)
(* input events that EventHandler::next reads.                             *)
(***************************************************************************)
\* The crossterm events of a batch.
KeyPress(k) == [t |-> "Key", key |-> k, kind |-> "Press", size |-> None]
KeyRelease(k) == [t |-> "Key", key |-> k, kind |-> "Release", size |-> None]
Resize(size) == [t |-> "Resize", key |-> "", kind |-> "", size |-> Some(size)]

\* last_key and last_resize when the read loop has emptied the queue.
last_key(batch) ==
    LET at == { i \in 1..Len(batch) : batch[i].t = "Key" /\ batch[i].kind # "Release" } IN
    IF at = {} THEN None
    ELSE Some(batch[CHOOSE i \in at : \A j \in at : j <= i].key)

last_resize(batch) ==
    LET at == { i \in 1..Len(batch) : batch[i].t = "Resize" } IN
    IF at = {} THEN None
    ELSE batch[CHOOSE i \in at : \A j \in at : j <= i].size

\* EventHandler::next on the events that are waiting (none: poll times
\* out). rest is what stays in the queue for the following call: nothing,
\* for the loop reads until poll(Duration::ZERO) finds no event.
next(batch) ==
    LET event == IF IsSome(last_resize(batch))
                 THEN [e |-> "Resize", key |-> "", size |-> last_resize(batch)]
                 ELSE IF IsSome(last_key(batch))
                 THEN [e |-> "Key", key |-> Unwrap(last_key(batch)), size |-> None]
                 ELSE [e |-> "Tick", key |-> "", size |-> None]
    IN [event |-> event, rest |-> << >>]

\* run_app: match events.next()? { ... }
dispatch(self, event, db) ==
    CASE event.e = "Tick" -> self
      [] event.e = "Key" -> handle_key(self, event.key, db)
      [] event.e = "Resize" -> handle_resize(self, Unwrap(event.size).w, Unwrap(event.size).h)

\* The longest batch of waiting events explored.
MaxBatch == 2

EventKeys == { "Enter", "j", "e", "q" }

InputEvents ==
    { KeyPress(k) : k \in EventKeys } \cup { KeyRelease(k) : k \in EventKeys }
        \cup { Resize(size) : size \in Sizes }

RECURSIVE SeqsUpTo(_, _)
SeqsUpTo(S, n) ==
    IF n = 0 THEN { << >> }
    ELSE LET shorter == SeqsUpTo(S, n - 1) IN
         shorter \cup { Append(q, x) : q \in shorter, x \in S }

Batches == SeqsUpTo(InputEvents, MaxBatch)

\* One turn of run_app after the draw: events.next() reads the waiting
\* batch and the event it returns is handled. The terminal has the size of
\* the last resize of the batch.
PollBatch ==
    /\ pc = "event"
    /\ pending_resize = None
    /\ \E batch \in Batches :
          \E a \in { dispatch(App, next(batch).event, DbOk) } :
          /\ InRange(App, a)
          /\ Becomes(a)
          /\ term' = IF IsSome(last_resize(batch)) THEN Unwrap(last_resize(batch)) ELSE term
          /\ pc' = IF a.should_quit THEN "done" ELSE "draw"
          /\ UNCHANGED pending_resize

EventNext == Draw \/ PollBatch

EventSpec == Init /\ [][EventNext]_vars

(***************************************************************************)
(* Properties. A handler runs when run_app has drawn and events.next       *)
(* returns; a key is returned only when no Resize event is waiting.        *)
(***************************************************************************)
KeyIsNext == pc = "event" /\ pending_resize = None
Loaded == page = "Show" /\ IsSome(current_question)

\* The keys of handle_show_key that call go_back (Esc: with no link focused).
BackKeys == { "b", "q", "Esc" }

\* C1: from the document view on X with history H, navigating to any Y and
\* then pressing a back key (the loop draws in between) ends in the document
\* view on X with history H again, whatever Storage answers to either call.
C1_BackRoundTrip ==
    (page = "Show" /\ KeyIsNext) =>
        \A y \in QuestionIds : \A db1 \in DbOutcomes : \A db2 \in DbOutcomes :
            \A key \in BackKeys :
                LET there == draw(navigate_to_question(App, y, db1), term)
                    back == handle_key(there, key, db2)
                IN /\ back.page = "Show"
                   /\ back.current_question_id = current_question_id
                   /\ back.history = history

\* A document X reached from another one (H is not empty), with a link to a
\* different question Y focused: 'o' navigates to Y, and Back returns to X.
C1_Witness ==
    /\ page = "Show" /\ KeyIsNext /\ history # << >>
    /\ LET there == draw(handle_key(App, "o", DbOk), term)
           back == handle_key(there, "b", DbOk)
       IN /\ there.current_question_id # current_question_id
          /\ Len(there.history) = Len(history) + 1
          /\ back.current_question_id = current_question_id
          /\ back.history = history

\* Every link of the list points at a line of the list of lines.
LinksWithin(links, lines) ==
    \A k \in 1..Len(links) : links[k].line_index < Len(lines)

\* C2: after any sequence of key, resize and render events every link of
\* content_links has line_index < Len(rendered_content) and every link of
\* erwin_links has line_index < Len(rendered_erwin_content).
C2_LinksInsideLines ==
    /\ LinksWithin(content_links, rendered_content)
    /\ LinksWithin(erwin_links, rendered_erwin_content)

\* Both panes hold links, after a navigation from one document to another
\* (both lists have been replaced at least once) and with the terminal
\* resized since the main pane was composed.
C2_Witness ==
    /\ page = "Show" /\ history # << >>
    /\ content_links # << >> /\ erwin_links # << >>
    /\ erwin_pane_visible
    /\ rendered_width # INIT_WIDTH

\* C3: whenever the document view holds a loaded document and its lines and
\* links are read (the draw has just rendered them and a handler is about to
\* use them), rendered_width equals the current width.
C3_WidthValidAtRead ==
    (Loaded /\ pc = "event") => rendered_width = width

\* The stale width outlives the Resize event: a key is the next event, and
\* the handler will read lines and links composed for another width.
C3_StaleAtKey ==
    Loaded /\ KeyIsNext /\ rendered_width # width

\* C4: after a navigation to an id Storage does not return, the document
\* view holds no document and the main pane's lines, links and jump
\* positions are empty.
C4_MissingIsEmpty ==
    (page = "Show" /\ current_question = None) =>
        /\ rendered_content = << >>
        /\ content_links = << >>
        /\ erwin_answer_positions = << >>

\* The document view holds no document, yet its main pane still holds the
\* lines and links of the one shown before, and a link of it can be focused.
C4_StaleDocument ==
    /\ page = "Show" /\ current_question = None /\ KeyIsNext
    /\ rendered_content # << >>
    /\ IsSome(get_focused_link(App))

\* The heights a Resize event can carry.
Heights == { s.h : s \in Sizes }

\* C5: handle_resize(w, h) with w equal to the current width changes no
\* field of the navigator but height, which becomes h, also when h differs
\* from the current height.
C5_SameWidthResize ==
    \A h \in Heights :
        handle_resize(App, width, h) = [App EXCEPT !.height = h]

\* A Resize event of the current width and another height is the next event,
\* on a loaded document scrolled away from the top with a link focused.
C5_Witness ==
    /\ pc = "event" /\ IsSome(pending_resize) /\ Loaded
    /\ Unwrap(pending_resize).w = width
    /\ Unwrap(pending_resize).h # height
    /\ scroll_offset > 0
    /\ IsSome(focused_link_index)
    /\ handle_resize(App, Unwrap(pending_resize).w, Unwrap(pending_resize).h).height
           = Unwrap(pending_resize).h

\* The number of answer sections of a composed document.
AnswerSections(lines) ==
    Cardinality({ k \in 1..Len(lines) : lines[k].k = "answer_header" })

\* C6: at width >= 160 with the pane hidden, on a loaded document with
\* k >= 1 answers of the distinguished author and m others, the main
\* document has m + k answer sections, and after 'e' it has exactly m and
\* its list of jump positions is empty.
C6_SkipAndRebuild ==
    (Loaded /\ KeyIsNext /\ width >= 160 /\ ~erwin_pane_visible
        /\ erwin_answer_count(App) >= 1) =>
        LET k == erwin_answer_count(App)
            m == Len(current_answers) - k
            after == handle_key(App, "e", DbOk)
        IN /\ AnswerSections(rendered_content) = m + k
           /\ AnswerSections(after.rendered_content) = m
           /\ after.erwin_answer_positions = << >>
           /\ after.erwin_pane_visible

\* The document with two distinguished answers and one other, pane hidden,
\* wide: 'e' leaves one answer section of the three.
C6_Witness ==
    /\ Loaded /\ KeyIsNext /\ width >= 160 /\ ~erwin_pane_visible
    /\ erwin_answer_count(App) = 2 /\ Len(current_answers) = 3
    /\ erwin_answer_positions # << >>
    /\ AnswerSections(rendered_content) = 3
    /\ AnswerSections(handle_key(App, "e", DbOk).rendered_content) = 1

\* The answers that have a section in the lines, and the lines of answer i.
Included(lines) ==
    { lines[k].a : k \in { j \in 1..Len(lines) : lines[j].k = "answer_header" } }
SectionLines(lines, i) == { k \in 1..Len(lines) : lines[k].a = i }

\* The number of lines in front of the body of answer i: those in front of
\* its section, its separator (3 lines) and its header (3 lines).
BodyStart(lines, i) ==
    LET first == CHOOSE k \in SectionLines(lines, i) :
                     \A j \in SectionLines(lines, i) : k <= j
    IN (first - 1) + 6

\* The links of the list that lie on the n lines from line index `from`.
LinksIn(links, from, n) ==
    LET inside(l) == from <= l.line_index /\ l.line_index < from + n
    IN SelectSeq(links, inside)

\* links is the fragment's list of links, moved down by offset.
Rebased(links, fragment, offset) ==
    /\ Len(links) = Len(fragment)
    /\ \A k \in 1..Len(links) :
          /\ links[k].line_index = fragment[k].line_index + offset
          /\ links[k].url = fragment[k].url
          /\ links[k].link_num = fragment[k].link_num

\* C7: in the composed main document the links on a section's body are the
\* links of its fragment with line_index increased by the number of lines
\* in front of the body, and there are no other links; for consecutive
\* included answers A1, A2 every link of A2 lies below every link of A1 and
\* the two offsets differ by the number of lines of A1's section.
C7_Rebasing ==
    Loaded =>
        LET lines == rendered_content
            content_width == SatSub(rendered_width, 4)
            question == html_to_content(Unwrap(current_question).body, content_width)
            fragment(i) == html_to_content(current_answers[i].answer_text, content_width)
            start(i) == BodyStart(lines, i)
            of(i) == LinksIn(content_links, start(i), Len(fragment(i).lines))
            consecutive(i, j) == /\ i < j
                                 /\ \A x \in Included(lines) : ~(i < x /\ x < j)
        IN /\ Rebased(LinksIn(content_links, 8, Len(question.lines)), question.links, 8)
           /\ \A i \in Included(lines) : Rebased(of(i), fragment(i).links, start(i))
           /\ \A k \in 1..Len(content_links) :
                 \/ LinksIn(<< content_links[k] >>, 8, Len(question.lines)) # << >>
                 \/ \E i \in Included(lines) :
                       LinksIn(<< content_links[k] >>, start(i), Len(fragment(i).lines)) # << >>
           /\ \A i \in Included(lines) : \A j \in Included(lines) :
                 consecutive(i, j) =>
                     /\ start(j) - start(i) = Cardinality(SectionLines(lines, i))
                     /\ \A a \in 1..Len(of(i)) : \A b \in 1..Len(of(j)) :
                           of(i)[a].line_index < of(j)[b].line_index

\* A loaded document whose answers 1 and 2 are both included and both hold
\* a link, the second answer's link further down by the first one's section.
C7_Witness ==
    /\ Loaded /\ pc = "event"
    /\ {1, 2} \subseteq Included(rendered_content)
    /\ \E a \in 1..Len(content_links) : \E b \in 1..Len(content_links) :
          /\ rendered_content[content_links[a].line_index + 1].a = 1
          /\ rendered_content[content_links[b].line_index + 1].a = 2
          /\ content_links[a].line_index < content_links[b].line_index

\* n presses of Tab (forward) or BackTab, the loop drawing after each.
RECURSIVE Cycled(_, _, _)
Cycled(self, forward, n) ==
    IF n = 0 THEN self
    ELSE Cycled(draw(handle_key(self, IF forward THEN "Tab" ELSE "BackTab", DbOk), term),
                forward, n - 1)

\* The number of links of the pane that has focus.
FocusedLinkCount == Len(focused_links(App))

\* C8 (as stated): from no link focused, N presses of Tab in a pane of
\* N >= 1 links leave the focus at None or on the first link.
C8_TabNTimes ==
    (page = "Show" /\ KeyIsNext /\ focused_link_index = None /\ FocusedLinkCount >= 1) =>
        Cycled(App, TRUE, FocusedLinkCount).focused_link_index \in { None, Some(0) }

\* C8 (amended): from no link focused, N presses of Tab in a pane of N >= 1
\* links leave the focus on the last link (index N - 1), one more press puts
\* it on the first link (index 0), and no press leaves it at None.
C8_TabWraparound ==
    (page = "Show" /\ KeyIsNext /\ focused_link_index = None /\ FocusedLinkCount >= 1) =>
        /\ Cycled(App, TRUE, FocusedLinkCount).focused_link_index
               = Some(FocusedLinkCount - 1)
        /\ Cycled(App, TRUE, FocusedLinkCount + 1).focused_link_index = Some(0)
        /\ \A n \in 1..(FocusedLinkCount + 1) :
              Cycled(App, TRUE, n).focused_link_index # None

\* No link focused in a pane of at least three links: the third press of
\* Tab is on the last link, not on the first.
C8_Witness ==
    /\ page = "Show" /\ KeyIsNext /\ focused_link_index = None
    /\ FocusedLinkCount >= 3
    /\ Cycled(App, TRUE, FocusedLinkCount).focused_link_index = Some(FocusedLinkCount - 1)
    /\ Cycled(App, TRUE, FocusedLinkCount + 1).focused_link_index = Some(0)

\* focused_link_index after one press forward then one backward, and after
\* one backward then one forward.
ForthAndBack == Cycled(Cycled(App, TRUE, 1), FALSE, 1).focused_link_index
BackAndForth == Cycled(Cycled(App, FALSE, 1), TRUE, 1).focused_link_index

\* C9 (as stated): in a pane of N >= 1 links, from every focus state, None
\* included, forward then backward restores focused_link_index, and so does
\* backward then forward.
C9_CycleInverse ==
    (page = "Show" /\ KeyIsNext /\ FocusedLinkCount >= 1) =>
        /\ ForthAndBack = focused_link_index
        /\ BackAndForth = focused_link_index

\* C9 (amended): in a pane of N >= 1 links, from a focus on one of its links
\* (Some(i), i < N) forward then backward and backward then forward restore
\* Some(i); from None, forward then backward ends on the last link and
\* backward then forward on the first.
C9_CycleInverseFocused ==
    (page = "Show" /\ KeyIsNext /\ FocusedLinkCount >= 1) =>
        /\ (IsSome(focused_link_index) /\ Unwrap(focused_link_index) < FocusedLinkCount) =>
              /\ ForthAndBack = focused_link_index
              /\ BackAndForth = focused_link_index
        /\ focused_link_index = None =>
              /\ ForthAndBack = Some(FocusedLinkCount - 1)
              /\ BackAndForth = Some(0)

\* The last of at least two links is focused: forward wraps to the first
\* link and backward wraps back to the last.
C9_Witness ==
    /\ page = "Show" /\ KeyIsNext /\ FocusedLinkCount >= 2
    /\ focused_link_index = Some(FocusedLinkCount - 1)
    /\ Cycled(App, TRUE, 1).focused_link_index = Some(0)
    /\ ForthAndBack = focused_link_index

\* C10: go_back with a non-empty history removes exactly its top entry,
\* which becomes the current document, in the document view; with an empty
\* history it sets page = Index and the history stays empty.
C10_BackStep ==
    (page = "Show" /\ KeyIsNext) =>
        \A db \in DbOutcomes :
            LET back == go_back(App, db) IN
            IF history # << >>
            THEN /\ back.history = SubSeq(history, 1, Len(history) - 1)
                 /\ Len(back.history) = Len(history) - 1
                 /\ back.current_question_id = history[Len(history)]
                 /\ back.page = "Show"
            ELSE /\ back.page = "Index"
                 /\ back.history = << >>

\* A document reached from another one: go_back returns to that one and
\* empties the history.
C10_Witness ==
    /\ page = "Show" /\ KeyIsNext /\ Len(history) = 1
    /\ history[1] # current_question_id
    /\ go_back(App, DbOk).current_question_id = history[1]
    /\ go_back(App, DbOk).history = << >>
    /\ IsSome(go_back(App, DbOk).current_question)

\* The ids navigate_to_question is called with: those of the rows, and one
\* that Storage does not hold.
TargetIds == QuestionIds \cup { 9 }

\* C11: navigate_to_question(X), called by a key handler, appends exactly
\* the id of the document shown before the call to the history when page =
\* Show, and leaves the history unchanged when page = Index.
C11_NavigatePush ==
    KeyIsNext =>
        \A x \in TargetIds : \A db \in DbOutcomes :
            navigate_to_question(App, x, db).history
                = IF page = "Show" THEN Append(history, current_question_id) ELSE history

\* In the document view on a document reached from another one, with a
\* link to a third question focused: 'o' navigates and pushes the current id
\* on top of the one already there.
C11_Witness ==
    /\ page = "Show" /\ KeyIsNext /\ Len(history) = 1
    /\ LET there == handle_key(App, "o", DbOk) IN
          /\ there.current_question_id # current_question_id
          /\ there.current_question_id # history[1]
          /\ there.history = << history[1], current_question_id >>

\* C12: after navigate_to_question(X), from any state a key handler can
\* find, scroll_offset = 0,
\* erwin_scroll_offset = 0, erwin_pane_visible = false, left_pane_focused =
\* true, focused_link_index = None, erwin_answer_index = 0, page = Show and
\* current_question_id = X.
C12_NavigateResets ==
    KeyIsNext =>
        \A x \in TargetIds : \A db \in DbOutcomes :
        LET there == navigate_to_question(App, x, db) IN
        /\ there.scroll_offset = 0
        /\ there.erwin_scroll_offset = 0
        /\ there.erwin_pane_visible = FALSE
        /\ there.left_pane_focused = TRUE
        /\ there.focused_link_index = None
        /\ there.erwin_answer_index = 0
        /\ there.page = "Show"
        /\ there.current_question_id = x

\* Every field the navigation resets is away from its initial value, and
\* 'o' on the focused link navigates.
C12_Witness ==
    /\ page = "Show" /\ KeyIsNext
    /\ scroll_offset > 0 /\ erwin_scroll_offset > 0
    /\ erwin_pane_visible /\ ~left_pane_focused
    /\ IsSome(focused_link_index) /\ erwin_answer_index > 0
    /\ handle_key(App, "o", DbOk).current_question_id # current_question_id
    /\ handle_key(App, "o", DbOk).scroll_offset = 0

\* C13: in every state reachable by keys and resizes, erwin_pane_visible
\* implies width >= 160.
C13_PaneOnlyWhenWide ==
    erwin_pane_visible => width >= DUAL_PANE_MIN_WIDTH

\* The pane is flagged visible and holds the focus in a terminal too narrow
\* to display it, and a key is the next event.
C13_FocusOnUndisplayedPane ==
    /\ page = "Show" /\ KeyIsNext /\ Loaded
    /\ erwin_pane_visible /\ ~left_pane_focused
    /\ width < DUAL_PANE_MIN_WIDTH /\ term.w < DUAL_PANE_MIN_WIDTH

\* The scroll keys of handle_show_key.
ScrollKeys == { "j", "k", "d", "space", "u", "g", "G" }

\* C14: a scroll key leaves the other pane's offset, the pane visibility,
\* the pane focus, the cursor and the history unchanged, and whenever the
\* pane is hidden or width < 160 the distinguished pane's offset is the one
\* left unchanged (the main pane's offset is the one that moves).
C14_ScrollFrame ==
    (page = "Show" /\ KeyIsNext) =>
        \A key \in ScrollKeys :
            LET after == handle_key(App, key, DbOk) IN
            /\ after.erwin_pane_visible = erwin_pane_visible
            /\ after.left_pane_focused = left_pane_focused
            /\ after.erwin_answer_index = erwin_answer_index
            /\ after.history = history
            /\ \/ after.scroll_offset = scroll_offset
               \/ after.erwin_scroll_offset = erwin_scroll_offset
            /\ (~erwin_pane_visible \/ width < DUAL_PANE_MIN_WIDTH) =>
                   after.erwin_scroll_offset = erwin_scroll_offset

\* In a narrow terminal 'j' moves the offset of the pane that is not
\* displayed and leaves the displayed main pane where it is.
C14_ScrollsUndisplayedPane ==
    /\ page = "Show" /\ KeyIsNext /\ Loaded
    /\ width < DUAL_PANE_MIN_WIDTH /\ erwin_pane_visible
    /\ handle_key(App, "j", DbOk).erwin_scroll_offset = erwin_scroll_offset + 1
    /\ handle_key(App, "j", DbOk).scroll_offset = scroll_offset
    /\ draw(handle_key(App, "j", DbOk), term).scroll_offset = scroll_offset

\* The largest offset of a pane of line_count lines in a frame of the given
\* height (one row of header, one of status bar).
MaxScroll(line_count, frame_height) ==
    SatSub(line_count, SatSub(frame_height, 2))

\* C15: after every render of the document view the offset of each pane
\* displayed lies in [0, max(0, line_count - visible_rows)]; and 'G'
\* followed by a render, in a frame of any size, leaves the offset of the
\* pane that has focus, if that render displays it, at exactly
\* max(0, line_count - visible_rows).
C15_LazyClamp ==
    (page = "Show" /\ pc = "event") =>
        /\ 0 <= scroll_offset
        /\ scroll_offset <= MaxScroll(Len(rendered_content), height)
        /\ (erwin_pane_visible /\ width >= DUAL_PANE_MIN_WIDTH) =>
              /\ 0 <= erwin_scroll_offset
              /\ erwin_scroll_offset <= MaxScroll(Len(rendered_erwin_content), height)
        /\ KeyIsNext =>
              \A size \in Sizes :
                  LET bottom == draw(handle_key(App, "G", DbOk), size) IN
                  IF erwin_focused(App)
                  THEN size.w >= DUAL_PANE_MIN_WIDTH =>
                           bottom.erwin_scroll_offset
                               = MaxScroll(Len(rendered_erwin_content), size.h)
                  ELSE bottom.scroll_offset = MaxScroll(Len(rendered_content), size.h)

\* A document longer than the frame, shown from its top: 'G' and the render
\* put the main pane at line_count - visible_rows, which is not 0.
C15_Witness ==
    /\ page = "Show" /\ KeyIsNext /\ ~erwin_focused(App)
    /\ scroll_offset = 0
    /\ Len(rendered_content) > height - 2
    /\ handle_key(App, "G", DbOk).scroll_offset = SCROLL_BOTTOM
    /\ draw(handle_key(App, "G", DbOk), term).scroll_offset
           = Len(rendered_content) - (height - 2)

\* A non-empty semantic query is about to be committed with Enter.
CommitsQuery ==
    KeyIsNext /\ page = "Index" /\ search_mode = "Semantic" /\ search_input # << >>

\* The semantic search cannot answer: no backend, or embed or the query fails.
SearchFails(db) == ~semantic \/ ~db.embed \/ ~IsSome(db.found)

\* C16: committing a non-empty semantic query when the search cannot answer
\* leaves the app running and reports an empty result list: the result set
\* is Some(empty) and the index lists no question.
C16_FailedSearchIsEmpty ==
    CommitsQuery =>
        \A db \in SearchOutcomes :
            SearchFails(db) =>
                LET after == handle_key(App, "Enter", db) IN
                /\ ~after.should_quit
                /\ after.semantic_results = Some(<< >>)
                /\ get_sorted_questions(after) = << >>

\* What the code does instead: with no backend and no earlier results, the
\* committed query leaves semantic_results None and the index lists every
\* question; with an earlier query's results, it leaves those in place.
C16_FailedSearchKeepsList ==
    /\ CommitsQuery /\ ~IsSome(fuzzy_matches)
    /\ \/ /\ ~semantic /\ ~IsSome(semantic_results)
          /\ LET after == handle_key(App, "Enter", DbOk) IN
                /\ ~after.should_quit /\ after.semantic_results = None
                /\ Len(get_sorted_questions(after)) = Len(questions)
       \/ /\ semantic /\ semantic_results = Some(<< 3, 7 >>)
          /\ LET after == handle_key(App, "Enter", [DbOk EXCEPT !.embed = FALSE]) IN
                /\ after.semantic_results = Some(<< 3, 7 >>)
                /\ Len(get_sorted_questions(after)) = 1

\* The link 'o' acts on is annotated with the id of a loaded question.
LocallyAvailable(link) ==
    IsSome(link) /\ IsSome(Unwrap(link).question_id)
                 /\ Unwrap(Unwrap(link).question_id) \in QuestionIds

\* C17: 'o' in the document view. On a focused link to a loaded question it
\* is the navigation to that question: the current id is pushed, the target
\* becomes current, the document-view state is reset and nothing is opened
\* externally. Otherwise the only change is the external open, of the
\* focused link's URL or, with no link focused, of the current question's.
C17_Open ==
    (page = "Show" /\ KeyIsNext) =>
        \A db \in DbOutcomes :
            LET link == get_focused_link(App)
                after == handle_key(App, "o", db)
            IN IF LocallyAvailable(link)
               THEN /\ after.history = Append(history, current_question_id)
                    /\ after.current_question_id = Unwrap(Unwrap(link).question_id)
                    /\ after.page = "Show"
                    /\ after.scroll_offset = 0 /\ after.erwin_scroll_offset = 0
                    /\ ~after.erwin_pane_visible /\ after.left_pane_focused
                    /\ after.focused_link_index = None /\ after.erwin_answer_index = 0
                    /\ after.opened = None
                    /\ after = navigate_to_question(App, Unwrap(Unwrap(link).question_id), db)
               ELSE after = [App EXCEPT !.opened =
                                Some(IF IsSome(link) THEN Unwrap(link).url
                                     ELSE QuestionUrl(current_question_id))]

\* A scrolled document with a focused link to another loaded question, on
\* which 'o' navigates.
C17_Witness ==
    /\ page = "Show" /\ KeyIsNext /\ Loaded
    /\ LocallyAvailable(get_focused_link(App))
    /\ scroll_offset > 0
    /\ handle_key(App, "o", DbOk).current_question_id # current_question_id

\* A focused link that is not a loaded question: 'o' opens its URL.
C17_WitnessExternal ==
    /\ page = "Show" /\ KeyIsNext
    /\ IsSome(get_focused_link(App)) /\ ~LocallyAvailable(get_focused_link(App))
    /\ handle_key(App, "o", DbOk).opened = Some(Unwrap(get_focused_link(App)).url)

\* n presses of 'e', the loop drawing after each.
RECURSIVE PressedE(_, _)
PressedE(self, n) ==
    IF n = 0 THEN self
    ELSE PressedE(draw(handle_key(self, "e", DbOk), term), n - 1)

\* The lines of the main document of self, with or without the answers of
\* the distinguished author.
MainLines(self, hide_erwin) ==
    build_question_content(Unwrap(self.current_question), self.current_answers,
                           self.current_comments, self.answer_comments,
                           self.width, hide_erwin).lines

\* The cycle starts: wide, a loaded document with distinguished answers,
\* the pane hidden and the cursor on the first of them.
CycleStart ==
    /\ Loaded /\ KeyIsNext /\ width >= DUAL_PANE_MIN_WIDTH
    /\ erwin_answer_count(App) >= 1
    /\ ~erwin_pane_visible /\ erwin_answer_index = 0

\* C18: from the start of the cycle with n distinguished answers, the first
\* 'e' shows the pane, gives it the focus and composes the main document
\* without them; the k-th further 'e' (k < n) moves the cursor to k with the
\* pane shown and focused; the n-th further 'e' puts the cursor back to 0,
\* hides the pane, gives the focus to the main pane and composes the main
\* document with them; so n + 1 presses restore the pane state.
C18_ErwinCycle ==
    CycleStart =>
        LET n == erwin_answer_count(App)
            first == PressedE(App, 1)
            last == PressedE(App, n + 1)
        IN /\ first.erwin_pane_visible /\ ~first.left_pane_focused
           /\ first.erwin_answer_index = 0
           /\ first.rendered_content = MainLines(App, TRUE)
           /\ AnswerSections(first.rendered_content) = Len(current_answers) - n
           /\ \A k \in 1..(n - 1) :
                 LET at == PressedE(App, k + 1) IN
                 /\ at.erwin_answer_index = k
                 /\ at.erwin_pane_visible /\ ~at.left_pane_focused
                 /\ at.rendered_content = first.rendered_content
           /\ last.erwin_answer_index = 0
           /\ ~last.erwin_pane_visible /\ last.left_pane_focused
           /\ last.rendered_content = MainLines(App, FALSE)
           /\ AnswerSections(last.rendered_content) = Len(current_answers)
           /\ last.erwin_pane_visible = erwin_pane_visible
           /\ last.left_pane_focused = left_pane_focused
           /\ last.erwin_answer_index = erwin_answer_index
           /\ last.erwin_scroll_offset = 0

\* The start of the cycle on the document with two distinguished answers:
\* the second press has the cursor on the second answer, the third closes.
C18_Witness ==
    /\ CycleStart /\ erwin_answer_count(App) = 2
    /\ PressedE(App, 2).erwin_answer_index = 1
    /\ PressedE(App, 2).erwin_pane_visible
    /\ ~PressedE(App, 3).erwin_pane_visible

\* The narrow layout on a loaded document with distinguished answers.
NarrowWithAnswers ==
    /\ Loaded /\ KeyIsNext /\ width < DUAL_PANE_MIN_WIDTH
    /\ erwin_answer_count(App) >= 1

\* C19: at width < 160 with n >= 1 distinguished answers, 'e' moves the
\* cursor to (cursor + 1) mod n and 'E' to (cursor - 1) mod n, and the main
\* offset becomes the jump position of the new cursor; pane visibility,
\* focus and the pane's offset are unchanged; the list of jump positions
\* has exactly n entries.
C19_NarrowJump ==
    NarrowWithAnswers =>
        LET n == erwin_answer_count(App)
            forth == handle_key(App, "e", DbOk)
            back == handle_key(App, "E", DbOk)
        IN /\ Len(erwin_answer_positions) = n
           /\ forth.erwin_answer_index = (erwin_answer_index + 1) % n
           /\ back.erwin_answer_index = (erwin_answer_index + n - 1) % n
           /\ forth.scroll_offset = erwin_answer_positions[forth.erwin_answer_index + 1]
           /\ back.scroll_offset = erwin_answer_positions[back.erwin_answer_index + 1]
           /\ \A after \in { forth, back } :
                 /\ after.erwin_pane_visible = erwin_pane_visible
                 /\ after.left_pane_focused = left_pane_focused
                 /\ after.erwin_scroll_offset = erwin_scroll_offset

\* The state the draw leaves when the terminal narrowed with the pane
\* shown: width is below 160 but the main document is still the one
\* composed at the former width without the distinguished answers, so it
\* has no jump positions, and 'e' moves the cursor without scrolling.
C19_NoJumpPositions ==
    /\ NarrowWithAnswers /\ rendered_width >= DUAL_PANE_MIN_WIDTH
    /\ erwin_answer_positions = << >>
    /\ erwin_answer_count(App) = 2
    /\ handle_key(App, "e", DbOk).erwin_answer_index = 1
    /\ handle_key(App, "e", DbOk).scroll_offset = scroll_offset

\* The offset of the pane that has focus.
FocusedOffset(self) ==
    IF erwin_focused(self) THEN self.erwin_scroll_offset ELSE self.scroll_offset

\* After cycling from the current state to after, the focus is on a link of
\* the pane, that link lies in the window of height - 2 rows starting at
\* the pane's offset, and the offset is the old one if the link was inside
\* the old window, the link's line if it was above, and the link's line
\* less half a window if it was below.
LinkScrolledIntoView(after) ==
    LET link == get_focused_link(after)
        visible_height == SatSub(height, 2)
        old == FocusedOffset(App)
        new == FocusedOffset(after)
    IN /\ IsSome(link)
       /\ LET line_index == Unwrap(link).line_index IN
          /\ new <= line_index /\ line_index < new + visible_height
          /\ new = IF line_index < old THEN line_index
                   ELSE IF line_index >= old + visible_height
                   THEN line_index - visible_height \div 2
                   ELSE old

C20_WitnessAbove ==
    /\ page = "Show" /\ KeyIsNext /\ FocusedLinkCount >= 1
    /\ LET after == handle_key(App, "Tab", DbOk)
           line_index == Unwrap(get_focused_link(after)).line_index
       IN /\ IsSome(get_focused_link(after))
          /\ line_index < FocusedOffset(App)
          /\ FocusedOffset(after) = line_index

\* The sizes a Resize event may carry: those of the terminal and a wider one.
ResizeTargets == Sizes \cup { [w |-> 200, h |-> 43] }

\* The document view with the distinguished pane shown on one of the
\* document's distinguished answers, the loop waiting for an event.
PaneShown ==
    /\ pc = "event" /\ Loaded /\ erwin_pane_visible
    /\ IsSome(get_current_erwin_answer(App))

\* C21: in the document view with the distinguished pane shown, a Resize
\* event that changes the width to one at which the pane is rendered leaves,
\* at the render that follows, the pane's lines and links equal to the
\* composition of the current distinguished answer at the new width / 2.
C21_PaneRecomposedOnResize ==
    PaneShown =>
        \A size \in ResizeTargets :
            (size.w # width /\ size.w >= DUAL_PANE_MIN_WIDTH) =>
                LET after == draw(handle_resize(App, size.w, size.h), size)
                    fresh == rebuild_erwin_content(after)
                IN /\ after.rendered_erwin_content = fresh.rendered_erwin_content
                   /\ after.erwin_links = fresh.erwin_links

\* The pane shows, at width 160, an answer whose lines wrap differently at
\* 80 and at 100 columns; after a resize to 200 the main document is
\* recomposed for 200 and the pane still holds the lines composed for 80.
C21_PaneStaleAfterResize ==
    /\ PaneShown /\ width = 160
    /\ LET after == draw(handle_resize(App, 200, 43), [w |-> 200, h |-> 43])
           fresh == rebuild_erwin_content(after)
       IN /\ after.rendered_width = 200
          /\ after.rendered_erwin_content = rendered_erwin_content
          /\ Len(after.rendered_erwin_content) # Len(fresh.rendered_erwin_content)
          /\ after.erwin_links # fresh.erwin_links

\* The links of the composed documents.
AllLinks ==
    { content_links[k] : k \in 1..Len(content_links) }
        \cup { erwin_links[k] : k \in 1..Len(erwin_links) }

AfterBatch(batch, size) ==
    LET first == next(batch)
        once == draw(dispatch(App, first.event, DbOk), size)
    IN draw(dispatch(once, next(first.rest).event, DbOk), size)

\* C23: when a batch holds a resize and a key press, next returns the
\* batch's last key press or keeps it for the following call, and the
\* navigator ends where handling both events, in one order or the other,
\* would have taken it.
C23_ResizeAndKeyDelivered ==
    pc = "event" =>
        \A batch \in Batches :
            (IsSome(last_resize(batch)) /\ IsSome(last_key(batch))) =>
                LET size == Unwrap(last_resize(batch))
                    key == Unwrap(last_key(batch))
                    first == next(batch)
                    key_first == draw(handle_resize(draw(handle_key(App, key, DbOk), size),
                                                    size.w, size.h), size)
                    resize_first == draw(handle_key(draw(handle_resize(App, size.w, size.h), size),
                                                    key, DbOk), size)
                IN /\ \/ first.event.e = "Key" /\ first.event.key = key
                      \/ \E k \in 1..Len(first.rest) : first.rest[k] = KeyPress(key)
                   /\ AfterBatch(batch, size) \in { key_first, resize_first }

\* In the document view 'j' and a resize to the present size wait together:
\* next returns the resize, nothing stays queued, and the document is not
\* scrolled although 'j' alone scrolls it.
C23_KeyDiscarded ==
    /\ pc = "event" /\ Loaded
    /\ LET batch == << KeyPress("j"), Resize(term) >> IN
          /\ next(batch).event.e = "Resize"
          /\ next(batch).rest = << >>
          /\ AfterBatch(batch, term).scroll_offset = scroll_offset
          /\ draw(handle_key(App, "j", DbOk), term).scroll_offset = scroll_offset + 1

\* C24: a call of ui::draw leaves every field of App as it was.
C24_DrawMutatesNothing ==
    pc = "draw" => draw(App, term) = App

\* A render in the document view that changes both the width, the terminal
\* having been resized, and the main pane's offset, which it clamps.
C24_DrawWritesSizeAndOffset ==
    /\ pc = "draw" /\ Loaded
    /\ draw(App, term).width # width
    /\ draw(App, term).scroll_offset < scroll_offset
    /\ draw(App, term).rendered_content = rendered_content

\* Every key of the index view and of the document view.
AllKeys == IndexKeys \cup Keys \cup Chars

\* C25: semantic.embed is called only by Enter pressed in the index view
\* while search_mode = Semantic with a non-empty search_input, then once and
\* with that input; no other key, whatever the mode, calls it, and no call
\* is pending when a key is read.
C25_EmbedOnlyOnCommit ==
    KeyIsNext =>
        /\ embed_calls = << >>
        /\ \A key \in AllKeys : \A db \in SearchOutcomes :
              LET after == handle_key(App, key, db) IN
              IF /\ key = "Enter" /\ page = "Index" /\ search_mode = "Semantic"
                 /\ search_input # << >> /\ semantic
              THEN after.embed_calls = << search_input >>
              ELSE after.embed_calls = << >>

\* A semantic query has been typed and a backend is loaded: a further
\* character, Backspace and Esc call nothing, Enter calls embed once.
C25_Witness ==
    /\ KeyIsNext /\ page = "Index" /\ search_mode = "Semantic" /\ semantic
    /\ Len(search_input) = 1
    /\ handle_key(App, "a", DbOk).embed_calls = << >>
    /\ handle_key(App, "Backspace", DbOk).embed_calls = << >>
    /\ handle_key(App, "Esc", DbOk).embed_calls = << >>
    /\ handle_key(App, "Enter", DbOk).embed_calls = << search_input >>

\* The composition of the main document of self at its width and with the
\* skip flag rebuild_content uses.
Composed(self) ==
    build_question_content(Unwrap(self.current_question), self.current_answers,
                           self.current_comments, self.answer_comments, self.width,
                           self.erwin_pane_visible /\ self.width >= DUAL_PANE_MIN_WIDTH)

PaneOpens ==
    /\ Loaded /\ KeyIsNext /\ width >= DUAL_PANE_MIN_WIDTH
    /\ ~erwin_pane_visible /\ erwin_answer_count(App) >= 1

\* C27: the 'e' that shows the hidden pane shows it on the first
\* distinguished answer: the cursor is 0 and the pane's lines are those of
\* that answer.
C27_OpensOnFirstAnswer ==
    PaneOpens =>
        LET after == handle_key(App, "e", DbOk) IN
        /\ after.erwin_pane_visible
        /\ after.erwin_answer_index = 0
        /\ after.rendered_erwin_content
              = rebuild_erwin_content([after EXCEPT !.erwin_answer_index = 0]).rendered_erwin_content

\* The cursor was moved to the second distinguished answer while the pane
\* was hidden; 'e' shows the pane on that answer.
C27_OpensOnLaterAnswer ==
    /\ PaneOpens /\ erwin_answer_index = 1
    /\ LET after == handle_key(App, "e", DbOk) IN
          /\ after.erwin_pane_visible /\ ~after.left_pane_focused
          /\ after.erwin_answer_index = 1
          /\ Unwrap(get_current_erwin_answer(after)).id = 13

\* The fields that make up the state of the panes.
PaneState(self) ==
    << self.erwin_pane_visible, self.left_pane_focused, self.erwin_answer_index,
       self.erwin_scroll_offset, self.scroll_offset, self.rendered_content,
       self.rendered_erwin_content, self.erwin_answer_positions,
       self.content_links, self.erwin_links >>

\* C28: 'E' in the document view at width >= 160. Pane shown and focused,
\* cursor > 0: the cursor goes back by one, the pane's offset is 0 and the
\* pane shows that answer. Pane shown and focused, cursor 0: the focus goes
\* to the main pane and the pane stays. Pane shown, main pane focused: the
\* pane is hidden and the main document is composed with the distinguished
\* answers. Pane hidden: no pane state changes.
C28_ReverseToggle ==
    (page = "Show" /\ KeyIsNext /\ width >= DUAL_PANE_MIN_WIDTH) =>
        LET after == handle_key(App, "E", DbOk) IN
        IF ~erwin_pane_visible THEN PaneState(after) = PaneState(App)
        ELSE IF ~left_pane_focused /\ erwin_answer_index > 0
        THEN /\ after.erwin_answer_index = erwin_answer_index - 1
             /\ after.erwin_scroll_offset = 0
             /\ after.erwin_pane_visible /\ ~after.left_pane_focused
             /\ after.rendered_erwin_content = rebuild_erwin_content(after).rendered_erwin_content
             /\ after.rendered_content = rendered_content
             /\ after.scroll_offset = scroll_offset
        ELSE IF ~left_pane_focused
        THEN /\ after.left_pane_focused /\ after.erwin_pane_visible
             /\ after = [App EXCEPT !.left_pane_focused = TRUE, !.focused_link_index = None]
        ELSE /\ ~after.erwin_pane_visible /\ after.left_pane_focused
             /\ after.erwin_answer_index = erwin_answer_index
             /\ Loaded => /\ after.rendered_content = MainLines(App, FALSE)
                          /\ AnswerSections(after.rendered_content) = Len(current_answers)
                          /\ Len(after.erwin_answer_positions) = erwin_answer_count(App)

\* The pane is shown and focused on the second distinguished answer: three
\* presses of 'E' step back, hand the focus over and hide the pane.
C28_Witness ==
    /\ page = "Show" /\ KeyIsNext /\ width >= DUAL_PANE_MIN_WIDTH /\ Loaded
    /\ erwin_pane_visible /\ ~left_pane_focused /\ erwin_answer_index = 1
    /\ LET one == draw(handle_key(App, "E", DbOk), term)
           two == draw(handle_key(one, "E", DbOk), term)
           three == draw(handle_key(two, "E", DbOk), term)
       IN /\ one.erwin_answer_index = 0 /\ ~one.left_pane_focused
          /\ two.left_pane_focused /\ two.erwin_pane_visible
          /\ ~three.erwin_pane_visible

\* The indices (from 0, in document order) of the header lines of the
\* distinguished author's answers in lines.
ErwinHeaders(lines) ==
    LET at == SelectSeq([k \in 1..Len(lines) |-> k],
                        LAMBDA k : lines[k].k = "answer_header" /\ lines[k].e)
    IN [j \in 1..Len(at) |-> at[j] - 1]

\* One jump position per distinguished answer's header, in document order,
\* each the header's index less 3.
PositionsMatchHeaders(lines, positions) ==
    LET headers == ErwinHeaders(lines) IN
    /\ Len(positions) = Len(headers)
    /\ \A j \in 1..Len(headers) : positions[j] = headers[j] - 3

\* C29: in the main document the navigator holds, and in the composition
\* of the current document at the present width with the distinguished
\* answers included and with them skipped, each included distinguished
\* answer has exactly one jump position, in document order, equal to the
\* index of its header line minus 3.
C29_JumpPositions ==
    Loaded =>
        /\ PositionsMatchHeaders(rendered_content, erwin_answer_positions)
        /\ \A hide_erwin \in BOOLEAN :
              LET content == build_question_content(Unwrap(current_question), current_answers,
                                 current_comments, answer_comments, width, hide_erwin)
              IN /\ PositionsMatchHeaders(content.lines, content.erwin_positions)
                 /\ Len(content.erwin_positions)
                       = IF hide_erwin THEN 0 ELSE erwin_answer_count(App)

\* The document with two distinguished answers composed with them: two
\* jump positions, the second further down than the first.
C29_Witness ==
    /\ Loaded /\ Len(erwin_answer_positions) = 2
    /\ Len(ErwinHeaders(rendered_content)) = 2
    /\ erwin_answer_positions[1] = ErwinHeaders(rendered_content)[1] - 3
    /\ erwin_answer_positions[1] < erwin_answer_positions[2]

\* C30: whenever the distinguished pane is marked visible, the answers of
\* the current document include at least one by the distinguished author.
C30_PaneNeedsAnswer ==
    erwin_pane_visible => erwin_answer_count(App) >= 1

\* The pane is shown and a link to a question without distinguished
\* answers is focused in the main pane: 'o' navigates there and the pane is
\* hidden.
C30_Witness ==
    /\ Loaded /\ KeyIsNext /\ erwin_pane_visible /\ erwin_answer_count(App) >= 1
    /\ LET after == handle_key(App, "o", DbOk) IN
          /\ after.current_question_id # current_question_id
          /\ erwin_answer_count(after) = 0
          /\ ~after.erwin_pane_visible

\* The pane's lines and links are those of the distinguished answer number
\* index of the current document, composed for a pane of some width.
PaneHolds(index) ==
    \E size \in ResizeTargets :
        LET fresh == rebuild_erwin_content(
                         [App EXCEPT !.erwin_answer_index = index, !.width = size.w])
        IN /\ rendered_erwin_content = fresh.rendered_erwin_content
           /\ erwin_links = fresh.erwin_links

\* The distinguished pane is drawn at the render just made.
PaneDrawn ==
    /\ pc = "event" /\ Loaded /\ erwin_pane_visible
    /\ width >= DUAL_PANE_MIN_WIDTH

\* C31: whenever the distinguished pane is drawn, its lines and links are
\* the composition of the distinguished answer selected by
\* erwin_answer_index, the answer the pane's header names.
C31_PaneShowsSelectedAnswer ==
    PaneDrawn => PaneHolds(erwin_answer_index)

\* The pane is drawn under the header "Erwin's Answer 2/2" and holds the
\* lines and links of the first distinguished answer: the cursor was moved
\* by 'e' while the terminal was narrow, where the pane is not recomposed,
\* and the widening resize recomposes the main document only.
C31_PaneShowsOtherAnswer ==
    /\ PaneDrawn /\ erwin_answer_count(App) = 2
    /\ erwin_answer_index = 1
    /\ PaneHolds(0)
    /\ ~PaneHolds(1)

\* The main document the navigator holds has no section of the
\* distinguished author.
MainOmitsErwin == Len(ErwinHeaders(rendered_content)) = 0

\* C32: at every render of a loaded document that has distinguished
\* answers, the main lines omit those answers exactly when the distinguished
\* pane is drawn at that render.
C32_OmitsIffPaneDrawn ==
    (pc = "event" /\ Loaded /\ erwin_answer_count(App) >= 1) =>
        (MainOmitsErwin <=> (erwin_pane_visible /\ width >= DUAL_PANE_MIN_WIDTH))

\* A render 80 columns wide of a document with distinguished answers: the
\* pane is not drawn and the main lines, composed at 160 columns with the
\* pane shown, omit them, so no distinguished answer is on the screen.
C32_AnswersShownNowhere ==
    /\ pc = "event" /\ Loaded /\ erwin_answer_count(App) >= 1
    /\ erwin_pane_visible /\ width < DUAL_PANE_MIN_WIDTH
    /\ MainOmitsErwin
    /\ rendered_width >= DUAL_PANE_MIN_WIDTH

\* C33: in the document view a focused link index is always an index into
\* the link list of the pane that has the focus.
C33_FocusInRange ==
    (page = "Show" /\ IsSome(focused_link_index)) =>
        Unwrap(focused_link_index) < Len(focused_links(App))

\* After a resize from 80 to 160 columns with the pane marked visible and
\* the left pane focused, the main document is recomposed without the
\* distinguished answers and the index kept from the longer list is past
\* the end of the new one: no link is highlighted and 'o' opens the
\* question's own URL.
C33_FocusPastEnd ==
    /\ Loaded /\ KeyIsNext /\ width >= DUAL_PANE_MIN_WIDTH
    /\ rendered_width = width
    /\ erwin_pane_visible /\ left_pane_focused
    /\ IsSome(focused_link_index)
    /\ Unwrap(focused_link_index) >= Len(content_links)
    /\ Unwrap(focused_link_index) < Len(rebuild_content([App EXCEPT !.width = 80]).content_links)
    /\ get_focused_link(App) = None
    /\ handle_key(App, "o", DbOk).opened = Some(QuestionUrl(current_question_id))

\* C34: erwin_answer_index is 0 when the current document has no
\* distinguished answer and below erwin_answer_count() otherwise, so that
\* get_current_erwin_answer returns an answer whenever there is one.
C34_CursorInRange ==
    /\ erwin_answer_count(App) = 0 => erwin_answer_index = 0
    /\ erwin_answer_count(App) >= 1 =>
          /\ erwin_answer_index < erwin_answer_count(App)
          /\ IsSome(get_current_erwin_answer(App))

\* The cursor is on the last of two distinguished answers and a link of the
\* main document leads to a question that has none: 'o' navigates there
\* and the cursor is back on 0.
C34_Witness ==
    /\ Loaded /\ KeyIsNext
    /\ erwin_answer_count(App) = 2 /\ erwin_answer_index = 1
    /\ LET after == handle_key(App, "o", DbOk) IN
          /\ after.current_question_id # current_question_id
          /\ erwin_answer_count(after) = 0
          /\ after.erwin_answer_index = 0

\* The states after n presses of Back ('b' or 'q') from one of the states
\* of from, whatever Storage answers; the loop renders after each press.
RECURSIVE BackPressed(_, _)
BackPressed(from, n) ==
    IF n = 0 THEN from
    ELSE BackPressed({ draw(handle_key(a, key, db), term) :
                           a \in from, key \in {"b", "q"}, db \in DbOutcomes },
                     n - 1)

\* C35: from the document view with history H, Back pressed repeatedly
\* stays in the document view with one entry of H less for each of the
\* first len(H) presses, and reaches the index view at press len(H) + 1
\* without quitting.
C35_BackReachesIndex ==
    (page = "Show" /\ KeyIsNext) =>
        /\ \A n \in 0..Len(history) : \A a \in BackPressed({App}, n) :
              /\ a.page = "Show"
              /\ a.history = SubSeq(history, 1, Len(history) - n)
        /\ \A a \in BackPressed({App}, Len(history) + 1) :
              a.page = "Index" /\ a.history = << >> /\ ~a.should_quit

\* A document reached from another one: the first Back returns to the
\* document left, the second reaches the index view.
C35_Witness ==
    /\ page = "Show" /\ KeyIsNext /\ Len(history) = 1
    /\ \E a \in BackPressed({App}, 1) :
          a.page = "Show" /\ a.current_question_id = history[1]
    /\ \A a \in BackPressed({App}, 2) : a.page = "Index"

\* C36: the history is empty whenever the index view is the current page.
C36_IndexHasNoHistory ==
    page = "Index" => history = << >>

\* The index view reached by Back from a document (go_back leaves the
\* document fields as they were): the history is empty, and Enter opens a
\* document without pushing anything.
C36_Witness ==
    /\ page = "Index" /\ KeyIsNext /\ history = << >>
    /\ IsSome(current_question)
    /\ LET after == handle_key(App, "Enter", DbOk) IN
          after.page = "Show" /\ after.history = << >>

\* C37: in the index view selected_index is 0 or below
\* visible_questions_count().
C37_SelectionInRange ==
    page = "Index" =>
        \/ selected_index = 0
        \/ selected_index < visible_questions_count(App)

\* The last of four semantic results is selected, one more than there are
\* questions, and 'q' drops the results: the selection returns to the top
\* of the full list.
C37_Witness ==
    /\ page = "Index" /\ KeyIsNext /\ search_mode = "None"
    /\ fuzzy_matches = None /\ IsSome(semantic_results)
    /\ visible_questions_count(App) > Len(questions)
    /\ selected_index = visible_questions_count(App) - 1
    /\ LET after == handle_key(App, "q", DbOk) IN
          /\ after.semantic_results = None
          /\ visible_questions_count(after) = Len(questions)
          /\ after.selected_index = 0

\* C38: a key sets should_quit only if it is 'q', pressed in the index
\* view with no search mode active and neither fuzzy nor semantic results;
\* a Resize event never sets it.
C38_QuitOnlyFromPlainIndex ==
    /\ ~should_quit =>
          \A key \in AllKeys :
          \A db \in (IF key = "Enter" THEN SearchOutcomes \cup DbOutcomes ELSE DbFor(key)) :
              handle_key(App, key, db).should_quit =>
                  /\ key = "q" /\ page = "Index" /\ search_mode = "None"
                  /\ fuzzy_matches = None /\ semantic_results = None
    /\ ~should_quit =>
          \A size \in ResizeTargets : ~handle_resize(App, size.w, size.h).should_quit
    /\ should_quit =>
          /\ page = "Index" /\ search_mode = "None"
          /\ fuzzy_matches = None /\ semantic_results = None

\* 'q' in the index view with semantic results showing drops the results
\* and does not quit; the next 'q' quits.
C38_Witness ==
    /\ page = "Index" /\ KeyIsNext /\ search_mode = "None"
    /\ IsSome(semantic_results)
    /\ LET first == handle_key(App, "q", DbOk) IN
          /\ ~first.should_quit
          /\ first.semantic_results = None
          /\ handle_key(draw(first, term), "q", DbOk).should_quit

\* C39: in the document view Esc with a link focused clears the link focus
\* and changes nothing else (page, document, history, scroll offsets and
\* pane state stay); with no link focused it does what Back does.
C39_EscClearsFocusFirst ==
    (page = "Show" /\ KeyIsNext) =>
        \A db \in DbOutcomes :
            LET after == handle_key(App, "Esc", db) IN
            IF IsSome(focused_link_index)
            THEN after = [App EXCEPT !.focused_link_index = None]
            ELSE after = handle_key(App, "b", db)

\* A link is focused in a scrolled document reached from another one: the
\* first Esc drops the focus and stays, the second returns to the document
\* left.
C39_Witness ==
    /\ Loaded /\ KeyIsNext /\ history # << >>
    /\ IsSome(get_focused_link(App))
    /\ scroll_offset > 0
    /\ LET first == handle_key(App, "Esc", DbOk)
           second == handle_key(draw(first, term), "Esc", DbOk)
       IN /\ first.focused_link_index = None
          /\ first.current_question_id = current_question_id
          /\ first.history = history
          /\ first.scroll_offset = scroll_offset
          /\ second.current_question_id = history[Len(history)]
          /\ second.history = SubSeq(history, 1, Len(history) - 1)

====
